---- MODULE Spec2Model ----
(***************************************************************************)
(* Putt tracker backend: the career aggregation of data_manager.py         *)
(* (sessions and player_stats tables, get_career_stats,                    *)
(* recalculate_player_stats, update_session, calculate_consecutive_streaks)*)
(* and the tracking loop of run_tracker.py (main).                         *)
(*                                                                         *)
(* The specifications share the variables:                                 *)
(*   Spec            the database of one player: sessions are created,     *)
(*                   finalised by their tracker, backfilled, and read by   *)
(*                   get_career_stats;                                     *)
(*   SpecStreaks     calculate_consecutive_streaks applied to putt lists;  *)
(*   SpecTracker     one run of the tracking loop of run_tracker.main and  *)
(*                   its finalisation;                                     *)
(*   SpecSession     the same run from the launch by start-session;        *)
(*   SpecRecords     stored rows read by the recalculation and backfill;   *)
(*   SpecClassifier  the trajectory classifier;                            *)
(*   SpecSweep       the most-makes-in-60-seconds sweep of the reporter;   *)
(*   SpecWinner, SpecDuel    the winner rules and the life of one duel;    *)
(*   SpecLeague      one league, its rounds and its members;               *)
(*   SpecCoach       the daily coach conversation and the coach chat;      *)
(*   SpecFundraiser  one fundraiser and its milestone notifications.       *)
(***************************************************************************)
EXTENDS Integers, Sequences, FiniteSets, TLC

VARIABLES
    sessions,        \* rows of the sessions table of the player, in insertion order
    proc,            \* per row: what its writer still has to do (tracker / backfill)
    selected,        \* per row: what the SELECT of its writer's recalculation in progress computed
    player_stats,    \* the player's row of the player_stats table
    notifications,   \* types of the rows of the notifications table, in insertion order
    career,          \* value returned by the last get_career_stats call (None: no call pending)
    putt_list_json,  \* SpecStreaks: argument of calculate_consecutive_streaks
    streak_counts,   \* SpecStreaks: its return value (None before the call)
    tr,              \* SpecTracker: locals of run_tracker.main, the clock and the logs
    classifier,      \* SpecClassifier: the trajectory classifier's state and its last result
    sweep,           \* SpecSweep: make timestamps handed to the reporter and its result
    duel,            \* SpecDuel: one row of the duels table, its notifications, the calls in progress
    league,          \* SpecLeague: one league, its rounds, members and invitations
    coach,           \* SpecCoach: the player's coach conversations, the threads and requests in progress
    fundraiser       \* SpecFundraiser: one fundraiser of the player, its pledges and notifications

vars == <<sessions, proc, selected, player_stats, notifications, career,
          putt_list_json, streak_counts, tr, classifier, sweep, duel, league,
          coach, fundraiser>>

-----------------------------------------------------------------------------
(* Bounds *)

MaxSessions == 2     \* rows in the sessions table
MaxRuns == 3         \* runs of makes in a putt list (SpecStreaks)
MaxFrames == 4       \* frames read by the tracking loop (SpecTracker)
MaxClock == 2        \* seconds of wall clock in a tracker run (SpecTracker)

-----------------------------------------------------------------------------
(* Values: Python None / SQL NULL, float('inf'), and present numbers.      *)

None == [none |-> TRUE]
Inf == [inf |-> TRUE]
Some(v) == [some |-> v]

\* Python's `x or 0` on a nullable column
OrZero(x) == IF x = None THEN 0 ELSE x.some

Max2(a, b) == IF a >= b THEN a ELSE b
Min2(a, b) == IF a <= b THEN a ELSE b

\* min(low, count) where low may be float('inf')
MinInf(low, count) == IF low = Inf THEN Some(count) ELSE Some(Min2(low.some, count))

\* Exact quotients a/b (Python floats), kept as <<numerator, denominator>>
Rat(n, d) == <<n, d>>
RatLeq(a, b) == a[1] * b[2] <= b[1] * a[2]
RatEq(a, b) == a[1] * b[2] = b[1] * a[2]
RatMax(a, b) == IF RatLeq(b, a) THEN a ELSE b

\* round(x, 2) of a non-negative quotient, in hundredths
Round2(x) == (x[1] * 200 + x[2]) \div (2 * x[2])

RECURSIVE SumSeq(_)
SumSeq(s) == IF s = <<>> THEN 0 ELSE Head(s) + SumSeq(Tail(s))

RECURSIVE MaxSeq(_)
MaxSeq(s) == IF s = <<>> THEN 0 ELSE Max2(Head(s), MaxSeq(Tail(s)))

\* json.dumps / json.loads: the text column holds the encoded value
json_dumps(v) == [json |-> v]
JSONDecodeError == [error |-> "JSONDecodeError"]
IsJson(text) == "json" \in DOMAIN text
json_loads(text) == IF IsJson(text) THEN text.json ELSE JSONDecodeError
\* a text column that does not hold JSON
Malformed == [text |-> "not json"]
\* the text 'null': json.loads returns None
JsonNull == [json |-> None, null |-> TRUE]
IsJsonNull(text) == "null" \in DOMAIN text

\* an exception that propagates out of a function
TypeError == [raised |-> "TypeError"]
AttributeError == [raised |-> "AttributeError"]
Raises(result) == "raised" \in DOMAIN result

-----------------------------------------------------------------------------
\* the variables of the other specifications, at rest
DbIdle ==
    /\ sessions = <<>>
    /\ proc = <<>>
    /\ selected = <<>>
    /\ player_stats = None
    /\ notifications = <<>>
    /\ career = None

StreaksIdle == putt_list_json = None /\ streak_counts = None

TrackerIdle == tr = None

ClassifierIdle == classifier = None

OthersIdle ==
    sweep = None /\ duel = None /\ league = None /\ coach = None /\ fundraiser = None

-----------------------------------------------------------------------------
(* Putt records as stored in the putt_list column: dicts with string keys *)

Putt(t, cls, detail) ==
    ("current_frame_time" :> t) @@ ("Putt Classification" :> cls)
                  @@ ("Putt Detailed Classification" :> detail)

\* dict.get(key, default)
Get(d, key, default) == IF key \in DOMAIN d THEN d[key] ELSE default

\* str.upper() on the classification strings that occur
Upper(str) ==
    CASE str = "make" -> "MAKE"
      [] str = "miss" -> "MISS"
      [] OTHER -> str

-----------------------------------------------------------------------------
(* calculate_consecutive_streaks (data_manager.py)                          *)

categories == <<3, 7, 10, 15, 21, 50, 100>>

\* str(c) for the streak categories
CategoryKey(c) ==
    CASE c = 3 -> "3" [] c = 7 -> "7" [] c = 10 -> "10" [] c = 15 -> "15"
      [] c = 21 -> "21" [] c = 50 -> "50" [] c = 100 -> "100"

CategoryKeys == {CategoryKey(categories[i]) : i \in DOMAIN categories}

CategoryOfKey(k) == CHOOSE c \in {categories[i] : i \in DOMAIN categories} : CategoryKey(c) = k

ZeroStreakCounts == [k \in CategoryKeys |-> 0]

\* body of the loop over putt_list; the loop state is <<current_streak, streaks>>
StreakStep(st, putt) ==
    IF Upper(Get(putt, "Putt Classification", "")) = "MAKE"
    THEN <<st[1] + 1, st[2]>>
    ELSE <<0, IF st[1] > 0 THEN Append(st[2], st[1]) ELSE st[2]>>

\* the loop body applied to putt_list[lo..hi] in order.  The range is split
\* in halves and the state after the first half is computed (left = left)
\* before the second half starts, so that long lists evaluate in shallow depth.
RECURSIVE StreakLoop(_, _, _, _)
StreakLoop(putt_list, lo, hi, st) ==
    IF lo > hi THEN st
    ELSE IF lo = hi THEN StreakStep(st, putt_list[lo])
    ELSE LET mid == (lo + hi) \div 2
             left == StreakLoop(putt_list, lo, mid, st)
         IN IF left = left THEN StreakLoop(putt_list, mid + 1, hi, left) ELSE left

\* the run lengths collected by the loop, and the append of the trailing
\* run after it
CollectStreaks(putt_list) ==
    LET st == StreakLoop(putt_list, 1, Len(putt_list), <<0, <<>>>>)
    IN IF st[1] > 0 THEN Append(st[2], st[1]) ELSE st[2]

\* mutant: the comparison with the category is strict
StreakContributionStrict(streak, category) ==
    IF streak > category THEN streak \div category ELSE 0

\* what one streak adds to the count of one category
StreakContribution(streak, category) ==
    IF streak >= category THEN streak \div category ELSE 0

RECURSIVE CountStreaks(_, _)
CountStreaks(streaks, counts) ==
    IF streaks = <<>> THEN counts
    ELSE CountStreaks(Tail(streaks),
            [k \in CategoryKeys |->
                counts[k] + StreakContribution(Head(streaks), CategoryOfKey(k))])

calculate_consecutive_streaks(text) ==
    IF text = None THEN ZeroStreakCounts
    ELSE IF ~IsJson(text) THEN ZeroStreakCounts
    ELSE IF IsJsonNull(text) THEN TypeError    \* for putt in None
    ELSE CountStreaks(CollectStreaks(json_loads(text)), ZeroStreakCounts)

-----------------------------------------------------------------------------
(* SessionReporter (session_reporter.py): the summary of one putt log.     *)
(* A putt log is the sequence of putt records the tracking loop has logged.*)

IsMakeAt(log, i) == log[i]["Putt Classification"] = "MAKE"
IsMissAt(log, i) == log[i]["Putt Classification"] = "MISS"
TimeAt(log, i) == log[i]["current_frame_time"]

MakeIndices(log) == {i \in DOMAIN log : IsMakeAt(log, i)}
MissIndices(log) == {i \in DOMAIN log : IsMissAt(log, i)}

RepTotalMakes(log) == Cardinality(MakeIndices(log))
RepTotalMisses(log) == Cardinality(MissIndices(log))

\* longest run of consecutive makes, in emission order
RepMaxConsecutiveMakes(log) ==
    LET lens == {L \in 0..Len(log) :
                    \E i \in 1..(Len(log) - L + 1) :
                        \A k \in i..(i + L - 1) : IsMakeAt(log, k)}
    IN CHOOSE m \in lens : \A n \in lens : n <= m

\* session duration: from the first logged event to the last
RepSessionDuration(log) ==
    IF log = <<>> THEN 0 ELSE TimeAt(log, Len(log)) - TimeAt(log, 1)

\* elapsed time at the 21st cumulative make, float('inf') if never reached
RepFastest21(log) ==
    LET reached == {i \in MakeIndices(log) :
                       Cardinality({j \in MakeIndices(log) : j <= i}) = 21}
    IN IF reached = {} THEN Inf
       ELSE Some(TimeAt(log, CHOOSE i \in reached : TRUE))

\* rates per minute: count / (duration / 60), 0 when the duration is 0
RatePerMinute(count, duration) ==
    IF duration = 0 THEN Rat(0, 1) ELSE Rat(count * 60, duration)

RepPuttsPerMinute(log) == RatePerMinute(Len(log), RepSessionDuration(log))
RepMakesPerMinute(log) == RatePerMinute(RepTotalMakes(log), RepSessionDuration(log))

\* most makes in a 60 second window: forward sweep over the makes, the
\* window keeps the make timestamps not older than 60 seconds
RepMostMakesIn60(log) ==
    LET InWindow(i) == {j \in MakeIndices(log) :
                           j <= i /\ TimeAt(log, i) - TimeAt(log, j) <= 60}
        sizes == {Cardinality(InWindow(i)) : i \in MakeIndices(log)}
    IN IF sizes = {} THEN 0 ELSE CHOOSE m \in sizes : \A n \in sizes : n <= m

\* 'MAKE - TOP' -> 'TOP', 'MISS - CATCH' -> 'CATCH': the detailed
\* classification without its outcome prefix
StripPrefix(detail) ==
    CASE detail = "MAKE - TOP" -> "TOP"
      [] detail = "MAKE - RIGHT" -> "RIGHT"
      [] detail = "MAKE - LOW" -> "LOW"
      [] detail = "MAKE - LEFT" -> "LEFT"
      [] detail = "MAKE - UNKNOWN" -> "UNKNOWN"
      [] detail = "MISS - CATCH" -> "CATCH"
      [] detail = "MISS - TIMEOUT" -> "TIMEOUT"
      [] detail = "MISS - QUICK PUTT" -> "QUICK PUTT"
      [] detail = "MISS - RETURN: Entry RAMP_ROI - Exit PUTTING_MAT_ROI"
             -> "RETURN: Entry RAMP_ROI - Exit PUTTING_MAT_ROI"
      [] OTHER -> detail

\* tallies: a key is present exactly when its count is at least 1
Tally(log, indices) ==
    LET keys == {StripPrefix(log[i]["Putt Detailed Classification"]) : i \in indices}
    IN [k \in keys |->
          Cardinality({i \in indices :
              StripPrefix(log[i]["Putt Detailed Classification"]) = k})]

RepMakesByCategory(log) == Tally(log, MakeIndices(log))
RepMissesByCategory(log) == Tally(log, MissIndices(log))

SessionReporter(log) ==
    [total_makes |-> RepTotalMakes(log),
     total_misses |-> RepTotalMisses(log),
     max_consecutive_makes |-> RepMaxConsecutiveMakes(log),
     fastest_21_makes |-> RepFastest21(log),
     makes_by_category |-> RepMakesByCategory(log),
     misses_by_category |-> RepMissesByCategory(log),
     putt_data |-> log,
     putts_per_minute |-> RepPuttsPerMinute(log),
     makes_per_minute |-> RepMakesPerMinute(log),
     most_makes_in_60_seconds |-> RepMostMakesIn60(log),
     session_duration |-> RepSessionDuration(log)]

-----------------------------------------------------------------------------
(* The sessions and player_stats tables (data_manager.py)                  *)

\* row inserted by create_session: every column but status is NULL
ActiveRow ==
    [status |-> Some("active"),
     total_makes |-> None, total_misses |-> None, best_streak |-> None,
     fastest_21_makes |-> None, putts_per_minute |-> None,
     makes_per_minute |-> None, most_makes_in_60_seconds |-> None,
     session_duration |-> None, putt_list |-> None,
     makes_by_category |-> None, misses_by_category |-> None]

\* row of player_stats inserted when the player registers (column defaults)
NewPlayerStats ==
    [total_makes |-> 0, total_misses |-> 0, best_streak |-> 0,
     fastest_21_makes |-> None]

\* float('inf') becomes NULL when a fastest-21 time is stored
StoredFastest21(reporter) ==
    IF reporter.fastest_21_makes /= Inf THEN reporter.fastest_21_makes ELSE None

\* the columns update_session writes
session_data(reporter) ==
    [status |-> Some("completed"),
     total_makes |-> Some(reporter.total_makes),
     total_misses |-> Some(reporter.total_misses),
     best_streak |-> Some(reporter.max_consecutive_makes),
     fastest_21_makes |-> StoredFastest21(reporter),
     makes_by_category |-> Some(json_dumps(reporter.makes_by_category)),
     misses_by_category |-> Some(json_dumps(reporter.misses_by_category)),
     putt_list |-> Some(json_dumps(reporter.putt_data)),
     putts_per_minute |-> Some(Round2(reporter.putts_per_minute)),
     makes_per_minute |-> Some(Round2(reporter.makes_per_minute)),
     most_makes_in_60_seconds |-> Some(reporter.most_makes_in_60_seconds),
     session_duration |-> Some(reporter.session_duration)]

\* the row create_historical_session inserts: most_makes_in_60_seconds and
\* session_duration are not among its columns and stay NULL
historical_row(reporter) ==
    [session_data(reporter) EXCEPT !.most_makes_in_60_seconds = None,
                                   !.session_duration = None]

\* personal-best notifications of update_session, compared with the
\* lifetime stats as they are before this session is factored in
PersonalBestNotifications(reporter, stats) ==
    (IF reporter.max_consecutive_makes > stats.best_streak
     THEN <<"NEW_PERSONAL_BEST">> ELSE <<>>)
    \o (IF /\ StoredFastest21(reporter) /= None
           /\ StoredFastest21(reporter).some /= 0
           /\ \/ stats.fastest_21_makes = None
              \/ StoredFastest21(reporter).some < stats.fastest_21_makes.some
        THEN <<"NEW_PERSONAL_BEST">> ELSE <<>>)

\* mutant: the UPDATE adds the computed counters to the stored ones
PersistStatsAdd(old, new) ==
    [new EXCEPT !.total_makes = old.total_makes + @,
                !.total_misses = old.total_misses + @]

\* UPDATE player_stats SET ...: the row after recalculate_player_stats has
\* written the values it computed
PersistStats(old, new) == new

\* the lifetime stats recalculate_player_stats computes from the completed
\* sessions
RecalculatedStats(rows) ==
    LET completed == SelectSeq(rows, LAMBDA r : r.status = Some("completed"))
        Col(c) == [i \in DOMAIN completed |-> completed[i][c]]
        Present(col) == SelectSeq(col, LAMBDA v : v /= None)
        Values(col) == [i \in DOMAIN Present(col) |-> Present(col)[i].some]
        times == Values(Col("fastest_21_makes"))
    IN [total_makes |-> SumSeq(Values(Col("total_makes"))),
        total_misses |-> SumSeq(Values(Col("total_misses"))),
        best_streak |-> MaxSeq(Values(Col("best_streak"))),
        fastest_21_makes |->
            IF times = <<>> THEN None
            ELSE Some(CHOOSE t \in {times[i] : i \in DOMAIN times} :
                          \A i \in DOMAIN times : t <= times[i])]

-----------------------------------------------------------------------------
(* get_career_stats (data_manager.py)                                      *)

Quadrants == {"TOP", "RIGHT", "LOW", "LEFT"}
MissOverviewCategories == {"RETURN", "CATCH", "TIMEOUT", "QUICK PUTT"}

\* the characters of the category keys that occur; any other key is one
\* opaque symbol
Chars(str) ==
    CASE str = "TOP" -> <<"T", "O", "P">>
      [] str = "RIGHT" -> <<"R", "I", "G", "H", "T">>
      [] str = "LOW" -> <<"L", "O", "W">>
      [] str = "LEFT" -> <<"L", "E", "F", "T">>
      [] str = "UNKNOWN" -> <<"U", "N", "K", "N", "O", "W", "N">>
      [] OTHER -> <<str>>

\* Python's `a in b` on strings: a occurs in b as a contiguous substring
IsSubstring(a, b) ==
    \E k \in 0..(Len(b) - Len(a)) : SubSeq(b, k + 1, k + Len(a)) = a

\* `"TOP" in cat` and the three tests after it
QuadrantIn(q, cat) == IsSubstring(Chars(q), Chars(cat))

\* the career_stats dictionary before the loop over the sessions
InitialCareerStats(stats) ==
    [high_makes |-> 0,
     sum_makes |-> stats.total_makes,
     high_best_streak |-> stats.best_streak,
     low_fastest_21 |-> stats.fastest_21_makes,
     high_ppm |-> 0, avg_ppm |-> Rat(0, 1),
     high_mpm |-> 0, avg_mpm |-> Rat(0, 1),
     high_most_in_60 |-> 0,
     high_duration |-> 0, sum_duration |-> 0,
     high_accuracy |-> Rat(0, 1), avg_accuracy |-> Rat(0, 1),
     consecutive |-> [k \in CategoryKeys |-> [high |-> 0, sum |-> 0]],
     makes_overview |-> [q \in Quadrants |-> [high |-> 0, sum |-> 0]],
     makes_detailed |-> <<>>,
     misses_overview |->
         [c \in MissOverviewCategories |-> [low |-> Inf, high |-> 0, sum |-> 0]],
     misses_detailed |-> <<>>]

\* _aggregate_session_makes: detailed high/sum per category of the session
AggregateMakesDetailed(detailed, s_makes_by_cat) ==
    [cat \in DOMAIN detailed \cup DOMAIN s_makes_by_cat |->
        LET old == IF cat \in DOMAIN detailed THEN detailed[cat]
                   ELSE [high |-> 0, sum |-> 0]
        IN IF cat \in DOMAIN s_makes_by_cat
           THEN [high |-> Max2(old.high, s_makes_by_cat[cat]),
                 sum |-> old.sum + s_makes_by_cat[cat]]
           ELSE old]

\* _aggregate_session_makes: the session's makes per quadrant
RECURSIVE SumCounts(_, _)
SumCounts(d, keys) ==
    IF keys = {} THEN 0
    ELSE LET k == CHOOSE x \in keys : TRUE IN d[k] + SumCounts(d, keys \ {k})

s_makes_overview_counts(s_makes_by_cat) ==
    [q \in Quadrants |->
        SumCounts(s_makes_by_cat, {cat \in DOMAIN s_makes_by_cat : QuadrantIn(q, cat)})]

\* mutant: the high-water mark of a quadrant accumulates like its sum
AggregateMakesOverviewAddHigh(overview, s_makes_by_cat) ==
    [q \in Quadrants |->
        [sum |-> overview[q].sum + s_makes_overview_counts(s_makes_by_cat)[q],
         high |-> overview[q].high + s_makes_overview_counts(s_makes_by_cat)[q]]]

\* _aggregate_session_makes: every quadrant is updated with the session's
\* count, 0 included
AggregateMakesOverview(overview, s_makes_by_cat) ==
    [q \in Quadrants |->
        [sum |-> overview[q].sum + s_makes_overview_counts(s_makes_by_cat)[q],
         high |-> Max2(overview[q].high, s_makes_overview_counts(s_makes_by_cat)[q])]]

\* mutant: low takes the count of the session at hand
LowHighSumLastLow(old, count) ==
    [low |-> Some(count),
     high |-> Max2(old.high, count),
     sum |-> old.sum + count]

\* low/high/sum of one miss category after a session with `count` misses
LowHighSum(old, count) ==
    [low |-> MinInf(old.low, count),
     high |-> Max2(old.high, count),
     sum |-> old.sum + count]

\* the loop over misses_by_category: only the four overview keys count
AggregateMissesOverview(overview, s_misses_by_cat) ==
    [c \in MissOverviewCategories |->
        IF c \in DOMAIN s_misses_by_cat
        THEN LowHighSum(overview[c], s_misses_by_cat[c])
        ELSE overview[c]]

\* _aggregate_session_misses: the session's misses per detailed subtype,
\* 'MISS - ' stripped; a putt without a detailed classification is 'UNKNOWN'
s_misses_detailed(putt_list) ==
    LET misses == {i \in DOMAIN putt_list :
                      Get(putt_list[i], "Putt Classification", "") = "MISS"}
        Detail(i) == StripPrefix(
            Get(putt_list[i], "Putt Detailed Classification", "UNKNOWN"))
    IN [d \in {Detail(i) : i \in misses} |->
           Cardinality({i \in misses : Detail(i) = d})]

AggregateMissesDetailed(detailed, putt_list) ==
    LET s == s_misses_detailed(putt_list)
    IN [d \in DOMAIN detailed \cup DOMAIN s |->
           LET old == IF d \in DOMAIN detailed THEN detailed[d]
                      ELSE [low |-> Inf, high |-> 0, sum |-> 0]
           IN IF d \in DOMAIN s THEN LowHighSum(old, s[d]) ELSE old]

\* the loop over consecutive_by_category
AggregateConsecutive(consecutive, counts) ==
    [k \in CategoryKeys |->
        [high |-> Max2(consecutive[k].high, counts[k]),
         sum |-> consecutive[k].sum + counts[k]]]

\* a text column that is present and decodes
Decodes(column) == column /= None /\ IsJson(column.some)

\* mutant: the high-water marks keep the first session's value
HighWaterFirst(high, value) == IF high = 0 THEN value ELSE high

\* max(career_stats[...], value) of the high-water marks
HighWater(high, value) == Max2(high, value)

\* mutant: the share of misses instead of the share of makes
s_accuracy_of_misses(s_makes, s_misses) == Rat(s_misses * 100, s_makes + s_misses)

\* s_accuracy = (s_makes / (s_makes + s_misses)) * 100, a percentage
s_accuracy(s_makes, s_misses) == Rat(s_makes * 100, s_makes + s_misses)

\* body of the loop over the sessions
CareerSessionStep(cs, session) ==
    LET s_makes == OrZero(session.total_makes)
        s_misses == OrZero(session.total_misses)
        duration == OrZero(session.session_duration)
    IN [cs EXCEPT
         !.high_makes = HighWater(@, s_makes),
         !.high_ppm = HighWater(@, OrZero(session.putts_per_minute)),
         !.high_mpm = HighWater(@, OrZero(session.makes_per_minute)),
         !.high_most_in_60 = HighWater(@, OrZero(session.most_makes_in_60_seconds)),
         !.high_duration = HighWater(@, duration),
         !.sum_duration = @ + duration,
         !.high_accuracy =
             IF s_makes + s_misses > 0
             THEN RatMax(@, s_accuracy(s_makes, s_misses)) ELSE @,
         !.makes_detailed =
             IF Decodes(session.makes_by_category)
             THEN AggregateMakesDetailed(@, json_loads(session.makes_by_category.some))
             ELSE @,
         !.makes_overview =
             IF Decodes(session.makes_by_category)
             THEN AggregateMakesOverview(@, json_loads(session.makes_by_category.some))
             ELSE @,
         !.misses_overview =
             IF Decodes(session.misses_by_category)
             THEN AggregateMissesOverview(@, json_loads(session.misses_by_category.some))
             ELSE @,
         !.consecutive =
             AggregateConsecutive(@,
                 calculate_consecutive_streaks(
                     IF session.putt_list = None THEN None ELSE session.putt_list.some)),
         !.misses_detailed =
             IF Decodes(session.putt_list)
             THEN AggregateMissesDetailed(@, json_loads(session.putt_list.some))
             ELSE @]

RECURSIVE CareerLoop(_, _)
CareerLoop(cs, rows) ==
    IF rows = <<>> THEN cs
    ELSE CareerLoop(CareerSessionStep(cs, Head(rows)), Tail(rows))

\* mutant: the float('inf') sentinel is left in place
KeepLow(low) == low

\* the final cleanup: float('inf') is replaced by None
CleanLow(low) == IF low = Inf THEN None ELSE low

\* the averages computed after the loop, from the persisted lifetime
\* counters and the summed duration, and the final cleanup
CareerFinish(cs, stats) ==
    LET total_duration_seconds == cs.sum_duration
        total_putts == stats.total_makes + stats.total_misses
    IN [cs EXCEPT
         !.avg_ppm = IF total_duration_seconds > 0
                     THEN Rat(total_putts * 60, total_duration_seconds) ELSE @,
         !.avg_mpm = IF total_duration_seconds > 0
                     THEN Rat(stats.total_makes * 60, total_duration_seconds) ELSE @,
         !.avg_accuracy = IF total_putts > 0
                          THEN Rat(stats.total_makes * 100, total_putts) ELSE @,
         !.misses_detailed =
             [d \in DOMAIN @ |-> [@[d] EXCEPT !.low = CleanLow(@)]],
         !.misses_overview =
             [c \in DOMAIN @ |-> [@[c] EXCEPT !.low = CleanLow(@)]]]

\* get_sessions_for_player: the rows, most recent first
get_sessions_for_player(rows) == [i \in DOMAIN rows |-> rows[Len(rows) + 1 - i]]

\* a category column holds 'null': None.items() raises AttributeError, which
\* the except clauses of the loop do not catch
CategoryColumnIsNull(session) ==
    \/ session.makes_by_category /= None /\ IsJsonNull(session.makes_by_category.some)
    \/ session.misses_by_category /= None /\ IsJsonNull(session.misses_by_category.some)

\* get_sessions_for_player computes consecutive_by_category of every row
\* before the loop starts; an exception there or in the loop propagates
get_career_stats(rows, stats) ==
    IF \E i \in DOMAIN rows :
          /\ rows[i].putt_list /= None
          /\ Raises(calculate_consecutive_streaks(rows[i].putt_list.some))
    THEN TypeError
    ELSE IF \E i \in DOMAIN rows : CategoryColumnIsNull(rows[i])
    THEN AttributeError
    ELSE CareerFinish(CareerLoop(InitialCareerStats(stats),
                                 get_sessions_for_player(rows)), stats)

-----------------------------------------------------------------------------
(* Spec: the database of one player.  Sessions are created by the          *)
(* start-session endpoint and finalised by their tracker process           *)
(* (update_session, then recalculate_player_stats, two transactions);      *)
(* backfill_stats inserts completed sessions and recalculates afterwards;  *)
(* get_career_stats may be called at any moment between transactions.      *)

\* a putt log: attempt i of kinds is logged at session time times[i]
Log(times, kinds) ==
    [i \in DOMAIN kinds |-> Putt(times[i], kinds[i][1], kinds[i][2])]

MakeTop == <<"MAKE", "MAKE - TOP">>
MissCatch == <<"MISS", "MISS - CATCH">>
MissReturn == <<"MISS", "MISS - RETURN: Entry RAMP_ROI - Exit PUTTING_MAT_ROI">>

\* n makes in the first 300 seconds and a miss at 300
ExampleLog(n) ==
    [i \in 1..(n + 1) |->
        IF i <= n THEN Putt(((i - 1) * 300) \div n, "MAKE", "MAKE - TOP")
        ELSE Putt(300, "MISS", "MISS - CATCH")]

\* 21 makes, one every 10 seconds, in the quadrants RIGHT and LOW and with
\* no quadrant resolved (UNKNOWN) in turn, and a miss at 300
QuadrantLog ==
    [i \in 1..22 |->
        IF i <= 21
        THEN Putt(10 * i, "MAKE",
                  <<"MAKE - RIGHT", "MAKE - UNKNOWN", "MAKE - LOW">>[(i % 3) + 1])
        ELSE Putt(300, "MISS", "MISS - TIMEOUT")]

\* the putt logs the trackers report on
TrackerLogs ==
    {<<>>,
     Log(<<0, 30, 60>>, <<MakeTop, MissCatch, MissReturn>>),
     ExampleLog(10),
     QuadrantLog}

\* the putt logs the backfill reports on
BackfillLogs ==
    {Log(<<0, 40>>, <<MissCatch, MissCatch>>),
     ExampleLog(15)}

Init ==
    /\ sessions = <<>>
    /\ proc = <<>>
    /\ selected = <<>>
    /\ player_stats = NewPlayerStats
    /\ notifications = <<>>
    /\ career = None
    /\ StreaksIdle
    /\ TrackerIdle
    /\ ClassifierIdle
    /\ OthersIdle

\* POST /start-session: create_session
CreateSession ==
    /\ Len(sessions) < MaxSessions
    /\ sessions' = Append(sessions, ActiveRow)
    /\ proc' = Append(proc, "tracking")
    /\ selected' = Append(selected, None)
    /\ career' = None
    /\ UNCHANGED <<player_stats, notifications, putt_list_json, streak_counts, tr, classifier, sweep, duel, league,
                   coach, fundraiser>>

\* the tracker of session i calls update_session with its reporter
UpdateSession(i, log) ==
    /\ proc[i] = "tracking"
    /\ LET reporter == SessionReporter(log)
       IN /\ notifications' =
                notifications \o PersonalBestNotifications(reporter, player_stats)
                              \o <<"SESSION_REPORT_READY">>
          /\ sessions' = [sessions EXCEPT ![i] = session_data(reporter)]
    /\ proc' = [proc EXCEPT ![i] = "updated"]
    /\ career' = None
    /\ UNCHANGED <<selected, player_stats, putt_list_json, streak_counts, tr, classifier, sweep, duel, league,
                   coach, fundraiser>>

\* the tracker of session i calls recalculate_player_stats: its SELECT reads
\* the completed sessions committed so far and the new totals are computed
RecalculateSelect(i) ==
    /\ proc[i] = "updated"
    /\ selected' = [selected EXCEPT ![i] = Some(RecalculatedStats(sessions))]
    /\ proc' = [proc EXCEPT ![i] = "selected"]
    /\ career' = None
    /\ UNCHANGED <<sessions, player_stats, notifications,
                   putt_list_json, streak_counts, tr, classifier, sweep, duel, league,
                   coach, fundraiser>>

\* recalculate_player_stats of the tracker of session i: its UPDATE writes
\* the totals computed from what the SELECT read, and the transaction commits
RecalculateUpdate(i) ==
    /\ proc[i] = "selected"
    /\ player_stats' = PersistStats(player_stats, selected[i].some)
    /\ selected' = [selected EXCEPT ![i] = None]
    /\ proc' = [proc EXCEPT ![i] = "done"]
    /\ career' = None
    /\ UNCHANGED <<sessions, notifications, putt_list_json, streak_counts, tr, classifier, sweep, duel, league,
                   coach, fundraiser>>

\* backfill_stats: create_historical_session for one log pair
CreateHistoricalSession(log) ==
    /\ Len(sessions) < MaxSessions
    /\ sessions' = Append(sessions, historical_row(SessionReporter(log)))
    /\ proc' = Append(proc, "backfill")
    /\ selected' = Append(selected, None)
    /\ career' = None
    /\ UNCHANGED <<player_stats, notifications, putt_list_json, streak_counts, tr, classifier, sweep, duel, league,
                   coach, fundraiser>>

\* backfill_stats: recalculate_player_stats for the affected player, the
\* SELECT; the rows the run has inserted carry what it computed
BackfillSelect ==
    /\ \E i \in DOMAIN proc : proc[i] = "backfill"
    /\ \A i \in DOMAIN proc : proc[i] /= "backfill_selected"
    /\ selected' = [i \in DOMAIN proc |->
                       IF proc[i] = "backfill" THEN Some(RecalculatedStats(sessions))
                       ELSE selected[i]]
    /\ proc' = [i \in DOMAIN proc |->
                   IF proc[i] = "backfill" THEN "backfill_selected" ELSE proc[i]]
    /\ career' = None
    /\ UNCHANGED <<sessions, player_stats, notifications,
                   putt_list_json, streak_counts, tr, classifier, sweep, duel, league,
                   coach, fundraiser>>

\* backfill_stats: recalculate_player_stats, the UPDATE and the commit
BackfillUpdate ==
    /\ \E i \in DOMAIN proc :
          /\ proc[i] = "backfill_selected"
          /\ player_stats' = PersistStats(player_stats, selected[i].some)
    /\ selected' = [i \in DOMAIN proc |->
                       IF proc[i] = "backfill_selected" THEN None ELSE selected[i]]
    /\ proc' = [i \in DOMAIN proc |->
                   IF proc[i] = "backfill_selected" THEN "done" ELSE proc[i]]
    /\ career' = None
    /\ UNCHANGED <<sessions, notifications, putt_list_json, streak_counts, tr, classifier, sweep, duel, league,
                   coach, fundraiser>>

\* GET /player/<id>/career-stats: get_career_stats
GetCareerStats ==
    /\ career' = Some(get_career_stats(sessions, player_stats))
    /\ UNCHANGED <<sessions, proc, selected, player_stats, notifications,
                   putt_list_json, streak_counts, tr, classifier, sweep, duel, league,
                   coach, fundraiser>>

Next ==
    \/ CreateSession
    \/ \E i \in DOMAIN sessions, log \in TrackerLogs : UpdateSession(i, log)
    \/ \E i \in DOMAIN sessions : RecalculateSelect(i)
    \/ \E i \in DOMAIN sessions : RecalculateUpdate(i)
    \/ \E log \in BackfillLogs : CreateHistoricalSession(log)
    \/ BackfillSelect
    \/ BackfillUpdate
    \/ GetCareerStats

Spec == Init /\ [][Next]_vars

-----------------------------------------------------------------------------
(* Claims about get_career_stats (checked under Spec)                      *)

\* sum over the session rows of a nullable column, NULL counting as 0
RECURSIVE ColumnTotal(_, _)
ColumnTotal(rows, c) ==
    IF rows = <<>> THEN 0 ELSE OrZero(Head(rows)[c]) + ColumnTotal(Tail(rows), c)

\* largest value of a nullable column over the rows, NULL counting as 0,
\* 0 when there is no row
ColumnMax(rows, c) ==
    LET vals == {OrZero(rows[i][c]) : i \in DOMAIN rows} \cup {0}
    IN CHOOSE m \in vals : \A v \in vals : v <= m

\* C1: the summary get_career_stats returns is determined by the session
\* rows alone: it is the summary returned for the same session rows when the
\* persisted lifetime counters are the ones a recalculation leaves.
C1_SummaryFromSessionsAlone ==
    career /= None =>
        career.some = get_career_stats(sessions, RecalculatedStats(sessions))

\* C2: sum_makes is the plain total of total_makes over all sessions and
\* sum_duration the plain total of session_duration over all sessions.
C2_PlainTotals ==
    career /= None =>
        /\ career.some.sum_makes = ColumnTotal(sessions, "total_makes")
        /\ career.some.sum_duration = ColumnTotal(sessions, "session_duration")

\* a miss category has occurred with a non-zero count in some session's
\* misses_by_category
OccurredInOverview(c) ==
    \E i \in DOMAIN sessions :
        /\ Decodes(sessions[i].misses_by_category)
        /\ c \in DOMAIN json_loads(sessions[i].misses_by_category.some)
        /\ json_loads(sessions[i].misses_by_category.some)[c] > 0

C5_AverageRates ==
    career /= None =>
        LET makes == ColumnTotal(sessions, "total_makes")
            attempts == makes + ColumnTotal(sessions, "total_misses")
            seconds == ColumnTotal(sessions, "session_duration")
        IN IF seconds = 0
           THEN /\ RatEq(career.some.avg_ppm, Rat(0, 1))
                /\ RatEq(career.some.avg_mpm, Rat(0, 1))
           ELSE /\ RatEq(career.some.avg_ppm, Rat(attempts * 60, seconds))
                /\ RatEq(career.some.avg_mpm, Rat(makes * 60, seconds))

\* the sessions that have attempts
WithAttempts ==
    {i \in DOMAIN sessions :
        OrZero(sessions[i].total_makes) + OrZero(sessions[i].total_misses) > 0}

Accuracy(i) ==
    Rat(OrZero(sessions[i].total_makes) * 100,
        OrZero(sessions[i].total_makes) + OrZero(sessions[i].total_misses))

\* C6: each high-water mark of a returned summary is the maximum of the
\* per-session value over all sessions, a NULL value counting as 0, and 0
\* when there is no session.
C6_HighWaterMarks ==
    career /= None =>
        LET cs == career.some
        IN /\ cs.high_makes = ColumnMax(sessions, "total_makes")
           /\ cs.high_duration = ColumnMax(sessions, "session_duration")
           /\ cs.high_ppm = ColumnMax(sessions, "putts_per_minute")
           /\ cs.high_mpm = ColumnMax(sessions, "makes_per_minute")
           /\ cs.high_most_in_60 = ColumnMax(sessions, "most_makes_in_60_seconds")
           /\ IF WithAttempts = {} THEN RatEq(cs.high_accuracy, Rat(0, 1))
              ELSE /\ \E i \in WithAttempts : RatEq(cs.high_accuracy, Accuracy(i))
                   /\ \A i \in WithAttempts : RatLeq(Accuracy(i), cs.high_accuracy)

\* a summary over a session of 10 makes and a later one of 15 makes, 300 s each
C6_Witness ==
    /\ career /= None
    /\ Len(sessions) = 2
    /\ sessions[1].total_makes = Some(10)
    /\ sessions[2].total_makes = Some(15)
    /\ sessions[1].session_duration = Some(300)
    /\ career.some.high_makes = 15
    /\ career.some.high_duration = 300
    /\ career.some.high_mpm = 300

-----------------------------------------------------------------------------
(* SpecTracker: run_tracker.main from the first frame of the tracking loop *)
(* to the end of its finally block, for the one live session (camera feed) *)
(* the start-session endpoint created.  tr holds the locals of main, the command line        *)
(* arguments, the wall clock, the putt log, the number of samples passed   *)
(* to the classifier (samples), how many of them carried a session time at *)
(* or after the limit (late_samples), the session time of the last one,    *)
(* the sequence of finalisation calls, why the                             *)
(* loop stopped and whether the classification of the last frame was       *)
(* dropped by the time limit check.                                        *)

\* what update_and_classify returns in a frame: no classification, or the
\* classification of a resolved attempt with its detailed classification
Classifications ==
    {None, Some(<<"MAKE", "MAKE - TOP">>), Some(<<"MISS", "MISS - CATCH">>)}

\* str.startswith on the classification strings
StartsWith(str, prefix) ==
    \/ prefix = "MAKE" /\ str \in {"MAKE"}
    \/ prefix = "MISS" /\ str \in {"MISS"}

TrackerArgs ==
    [is_live_feed : {TRUE},
     duel_id : {None, Some(1)},
     league_round_id : {None, Some(1)},
     time_limit_seconds : {None} \cup {Some(n) : n \in 1..(MaxClock - 1)}]

\* the locals of main when the tracking loop is entered
TrackerStart(args) ==
    [pc |-> "loop",
     args |-> args,
     now |-> 0,
     frame_count |-> 0,
     session_start_time |-> None,
     total_makes |-> 0,
     total_misses |-> 0,
     consecutive_makes |-> 0,
     max_consecutive_makes |-> 0,
     scoring_active |-> FALSE,
     ball_in_ramp |-> FALSE,
     session_duration |-> None,
     putt_log |-> <<>>,
     samples |-> 0,
     late_samples |-> 0,
     last_sample |-> None,
     calls |-> <<>>,
     stop |-> "running",
     discarded |-> FALSE,
     raised |-> FALSE]

InitTracker ==
    /\ tr \in {TrackerStart(args) : args \in TrackerArgs}
    /\ sessions = <<ActiveRow>>
    /\ proc = <<"tracking">>
    /\ selected = <<None>>
    /\ player_stats = NewPlayerStats
    /\ notifications = <<>>
    /\ career = None
    /\ StreaksIdle
    /\ ClassifierIdle
    /\ OthersIdle

\* mutant: the comparison with the limit is strict
LimitExceeded(limit, current_video_time) ==
    limit /= None /\ current_video_time > limit.some

\* the time limit check of the loop
LimitReached(limit, current_video_time) ==
    limit /= None /\ current_video_time >= limit.some

\* frame_count += 1
FrameCountNext(frame_count) == frame_count + 1

\* mutant: a miss does not reset the current streak
CountedNoReset(t, cls) ==
    IF StartsWith(cls, "MAKE")
    THEN [t EXCEPT !.total_makes = @ + 1,
                   !.consecutive_makes = @ + 1,
                   !.max_consecutive_makes =
                       IF t.consecutive_makes + 1 > @ THEN t.consecutive_makes + 1 ELSE @]
    ELSE IF StartsWith(cls, "MISS")
    THEN [t EXCEPT !.total_misses = @ + 1]
    ELSE t

\* mutant: a classification counts as a make and as a miss
CountedTwice(t, cls) ==
    [t EXCEPT !.total_makes = @ + 1, !.total_misses = @ + 1,
              !.consecutive_makes = 0]

\* the counters after a classified attempt
Counted(t, cls) ==
    IF StartsWith(cls, "MAKE")
    THEN [t EXCEPT !.total_makes = @ + 1,
                   !.consecutive_makes = @ + 1,
                   !.max_consecutive_makes =
                       IF t.consecutive_makes + 1 > @ THEN t.consecutive_makes + 1 ELSE @]
    ELSE IF StartsWith(cls, "MISS")
    THEN [t EXCEPT !.total_misses = @ + 1, !.consecutive_makes = 0]
    ELSE t

\* the session timer starts in the first iteration that finds ball_in_ramp
\* set by the previous one
StartTimeAfter(t, now) ==
    IF t.session_start_time = None /\ t.ball_in_ramp THEN Some(now)
    ELSE t.session_start_time

\* session-relative time of the frame
CurrentVideoTime(start, now) == IF start /= None THEN now - start.some ELSE 0

DbUnchanged == UNCHANGED <<sessions, proc, selected, player_stats, notifications, career>>
StreaksUnchanged == UNCHANGED <<putt_list_json, streak_counts>>
ClassifierUnchanged == UNCHANGED classifier
OthersUnchanged == UNCHANGED <<sweep, duel, league,
                   coach, fundraiser>>

\* one iteration of the loop in which a frame is read and classified: dt
\* seconds have passed, the classifier returns cls and ramp, and the user
\* presses 'q' at the end of the iteration or not
TrackFrame(dt, cls, ramp, key_q) ==
    /\ tr.pc = "loop"
    /\ tr.frame_count < MaxFrames
    /\ tr.now + dt <= MaxClock
    /\ LET now == tr.now + dt
           start == StartTimeAfter(tr, now)
           current_video_time == CurrentVideoTime(start, now)
           t1 == [tr EXCEPT !.now = now,
                            !.frame_count = FrameCountNext(@),
                            !.session_start_time = start,
                            !.samples = @ + 1,
                            !.late_samples =
                                IF LimitReached(tr.args.time_limit_seconds,
                                                current_video_time)
                                THEN @ + 1 ELSE @,
                            !.last_sample = Some(current_video_time),
                            !.ball_in_ramp = ramp]
       IN IF LimitReached(tr.args.time_limit_seconds, current_video_time)
          THEN tr' = [t1 EXCEPT !.pc = "finally", !.stop = "time_limit",
                                !.discarded = (cls /= None)]
          ELSE LET t2 == IF cls /= None
                         THEN [Counted(t1, cls.some[1]) EXCEPT
                                  !.putt_log = Append(@,
                                      Putt(current_video_time, cls.some[1], cls.some[2])),
                                  !.scoring_active = TRUE]
                         ELSE t1
               IN tr' = IF key_q THEN [t2 EXCEPT !.pc = "finally", !.stop = "quit"]
                        ELSE t2
    /\ DbUnchanged
    /\ StreaksUnchanged
    /\ ClassifierUnchanged
    /\ OthersUnchanged

\* cap.read() fails: end of the video or of the feed
EndOfFeed ==
    /\ tr.pc = "loop"
    /\ tr' = [tr EXCEPT !.pc = "finally", !.stop = "end_of_feed"]
    /\ DbUnchanged
    /\ StreaksUnchanged
    /\ ClassifierUnchanged
    /\ OthersUnchanged

\* an iteration in which processing the frame raises: the frame has been
\* read and counted, nothing has been classified
FrameRaises(dt) ==
    /\ tr.pc = "loop"
    /\ tr.frame_count < MaxFrames
    /\ tr.now + dt <= MaxClock
    /\ tr' = [tr EXCEPT !.now = tr.now + dt,
                        !.frame_count = FrameCountNext(@),
                        !.session_start_time = StartTimeAfter(tr, tr.now + dt),
                        !.pc = "finally", !.stop = "exception", !.raised = TRUE]
    /\ DbUnchanged
    /\ StreaksUnchanged
    /\ ClassifierUnchanged
    /\ OthersUnchanged

\* mutant: the recalculation of the lifetime stats is left out
StepAfterSkippingRecalculate(step, args) ==
    CASE step = "finally" ->
            IF args.is_live_feed THEN "update_session" ELSE "release"
      [] step = "update_session" ->
            IF args.duel_id /= None THEN "submit_duel_session"
            ELSE IF args.league_round_id /= None THEN "submit_league_session"
            ELSE "release"
      [] step = "recalculate_player_stats" ->
            IF args.duel_id /= None THEN "submit_duel_session"
            ELSE IF args.league_round_id /= None THEN "submit_league_session"
            ELSE "release"
      [] step = "submit_duel_session" ->
            IF args.league_round_id /= None THEN "submit_league_session" ELSE "release"
      [] OTHER -> "release"

\* the order of the statements of the finally block
StepAfter(step, args) ==
    CASE step = "finally" ->
            IF args.is_live_feed THEN "update_session" ELSE "release"
      [] step = "update_session" -> "recalculate_player_stats"
      [] step = "recalculate_player_stats" ->
            IF args.duel_id /= None THEN "submit_duel_session"
            ELSE IF args.league_round_id /= None THEN "submit_league_session"
            ELSE "release"
      [] step = "submit_duel_session" ->
            IF args.league_round_id /= None THEN "submit_league_session" ELSE "release"
      [] OTHER -> "release"

\* entry of the finally block: the playing duration is computed
Finally ==
    /\ tr.pc = "finally"
    /\ tr' = [tr EXCEPT
                !.session_duration =
                    IF tr.session_start_time /= None
                    THEN Some(tr.now - tr.session_start_time.some) ELSE Some(0),
                !.pc = StepAfter("finally", tr.args)]
    /\ DbUnchanged
    /\ StreaksUnchanged
    /\ ClassifierUnchanged
    /\ OthersUnchanged

\* data_manager.update_session(args.session_id, reporter), the reporter
\* being loaded from the putt log
TrackerUpdateSession ==
    /\ tr.pc = "update_session"
    /\ LET reporter == SessionReporter(tr.putt_log)
       IN /\ notifications' =
                notifications \o PersonalBestNotifications(reporter, player_stats)
                              \o <<"SESSION_REPORT_READY">>
          /\ sessions' = [sessions EXCEPT ![1] = session_data(reporter)]
    /\ proc' = [proc EXCEPT ![1] = "updated"]
    /\ tr' = [tr EXCEPT !.calls = Append(@, "update_session"),
                        !.pc = StepAfter("update_session", tr.args)]
    /\ UNCHANGED <<selected, player_stats, career>>
    /\ StreaksUnchanged
    /\ ClassifierUnchanged
    /\ OthersUnchanged

\* data_manager.recalculate_player_stats(args.player_id)
TrackerRecalculate ==
    /\ tr.pc = "recalculate_player_stats"
    /\ player_stats' = PersistStats(player_stats, RecalculatedStats(sessions))
    /\ proc' = [proc EXCEPT ![1] = "done"]
    /\ tr' = [tr EXCEPT !.calls = Append(@, "recalculate_player_stats"),
                        !.pc = StepAfter("recalculate_player_stats", tr.args)]
    /\ UNCHANGED <<sessions, selected, notifications, career>>
    /\ StreaksUnchanged
    /\ ClassifierUnchanged
    /\ OthersUnchanged

\* data_manager.submit_duel_session(args.duel_id, ...)
TrackerSubmitDuel ==
    /\ tr.pc = "submit_duel_session"
    /\ tr' = [tr EXCEPT !.calls = Append(@, "submit_duel_session"),
                        !.pc = StepAfter("submit_duel_session", tr.args)]
    /\ DbUnchanged
    /\ StreaksUnchanged
    /\ ClassifierUnchanged
    /\ OthersUnchanged

\* data_manager.submit_league_session(args.league_round_id, ...)
TrackerSubmitLeague ==
    /\ tr.pc = "submit_league_session"
    /\ tr' = [tr EXCEPT !.calls = Append(@, "submit_league_session"),
                        !.pc = StepAfter("submit_league_session", tr.args)]
    /\ DbUnchanged
    /\ StreaksUnchanged
    /\ ClassifierUnchanged
    /\ OthersUnchanged

\* cap.release(); main returns, or the exception of the loop propagates
Release ==
    /\ tr.pc = "release"
    /\ tr' = [tr EXCEPT !.pc = IF tr.raised THEN "raised" ELSE "done"]
    /\ DbUnchanged
    /\ StreaksUnchanged
    /\ ClassifierUnchanged
    /\ OthersUnchanged

NextTracker ==
    \/ \E dt \in 0..1, cls \in Classifications, ramp \in BOOLEAN, key_q \in BOOLEAN :
          TrackFrame(dt, cls, ramp, key_q)
    \/ EndOfFeed
    \/ \E dt \in 0..1 : FrameRaises(dt)
    \/ Finally
    \/ TrackerUpdateSession
    \/ TrackerRecalculate
    \/ TrackerSubmitDuel
    \/ TrackerSubmitLeague
    \/ Release

SpecTracker == InitTracker /\ [][NextTracker]_vars

-----------------------------------------------------------------------------
(* Claims about the tracking loop (checked under SpecTracker)              *)

AtOrAfterLimit(t) ==
    tr.args.time_limit_seconds /= None /\ t >= tr.args.time_limit_seconds.some

LoggedTimes == [i \in DOMAIN tr.putt_log |-> tr.putt_log[i]["current_frame_time"]]

C7_State ==
    /\ \A i \in DOMAIN LoggedTimes : ~AtOrAfterLimit(LoggedTimes[i])
    /\ tr.total_makes + tr.total_misses = Len(tr.putt_log)
    /\ tr.late_samples <= 1
    /\ tr.late_samples = 1 =>
          /\ AtOrAfterLimit(tr.last_sample.some)
          /\ tr.pc /= "loop"
          /\ tr.stop = "time_limit"
    /\ tr.stop = "time_limit" => tr.late_samples = 1
    /\ tr.calls /= <<>> =>
          OrZero(sessions[1].total_makes) + OrZero(sessions[1].total_misses)
              = Len(tr.putt_log)

C7_Step ==
    tr.pc /= "loop" =>
        /\ tr'.samples = tr.samples
        /\ tr'.putt_log = tr.putt_log
        /\ tr'.total_makes = tr.total_makes
        /\ tr'.total_misses = tr.total_misses

IsPrefix(a, b) == Len(a) <= Len(b) /\ \A i \in DOMAIN a : a[i] = b[i]

ExpectedCalls(args) ==
    <<"update_session", "recalculate_player_stats">>
        \o (IF args.duel_id /= None THEN <<"submit_duel_session">> ELSE <<>>)
        \o (IF args.league_round_id /= None THEN <<"submit_league_session">> ELSE <<>>)

C9_AtMostOnePerFrame ==
    /\ tr.total_makes + tr.total_misses <= tr.frame_count
    /\ Len(tr.putt_log) <= tr.frame_count

\* every frame read so far produced an attempt
C9_Witness ==
    /\ tr.frame_count = 3
    /\ tr.total_makes + tr.total_misses = 3
    /\ tr.total_misses >= 1

LogIsMake(i) == tr.putt_log[i]["Putt Classification"] = "MAKE"

\* lengths of the runs of consecutive makes that end at position j
RunsEndingAt(j) ==
    {k \in 0..j : \A i \in (j - k + 1)..j : LogIsMake(i)}

SetMax(S) == CHOOSE m \in S : \A n \in S : n <= m

TrailingMakes == SetMax(RunsEndingAt(Len(tr.putt_log)))

LongestRunOfMakes ==
    SetMax(UNION {RunsEndingAt(j) : j \in 0..Len(tr.putt_log)})

\* C10: the live counters are the number of MAKE attempts, the number of
\* MISS attempts, the length of the trailing run of MAKEs and the longest
\* run of MAKEs of the attempts handled so far.
C10_LiveCounters ==
    /\ tr.total_makes = Cardinality({i \in DOMAIN tr.putt_log : LogIsMake(i)})
    /\ tr.total_misses = Cardinality({i \in DOMAIN tr.putt_log : ~LogIsMake(i)})
    /\ tr.consecutive_makes = TrailingMakes
    /\ tr.max_consecutive_makes = LongestRunOfMakes
    /\ tr.consecutive_makes <= tr.max_consecutive_makes
    /\ tr.max_consecutive_makes <= tr.total_makes

\* MAKE, MAKE, MISS, MAKE has been handled
C10_Witness ==
    /\ Len(tr.putt_log) = 4
    /\ LogIsMake(1) /\ LogIsMake(2) /\ ~LogIsMake(3) /\ LogIsMake(4)
    /\ tr.total_makes = 3
    /\ tr.total_misses = 1
    /\ tr.max_consecutive_makes = 2
    /\ tr.consecutive_makes = 1

-----------------------------------------------------------------------------
(* SpecStreaks: calculate_consecutive_streaks on putt lists made of runs   *)

RunLens == {1, 3, 7, 21, 50}
GapLens == {0, 1}

MakePutt == Putt(0, "MAKE", "MAKE - TOP")
MissPutt == Putt(0, "MISS", "MISS - CATCH")

Repeat(p, n) == [i \in 1..n |-> p]

RECURSIVE ListsOfRuns(_)
ListsOfRuns(n) ==
    IF n = 0 THEN {<<>>}
    ELSE LET prev == ListsOfRuns(n - 1)
         IN prev \cup {l \o Repeat(MissPutt, g) \o Repeat(MakePutt, r) :
                          l \in prev, g \in GapLens, r \in RunLens}

StreakInputs ==
    {json_dumps(l \o Repeat(MissPutt, g)) : l \in ListsOfRuns(MaxRuns), g \in GapLens}
        \cup {None, Malformed}

InitStreaks ==
    /\ putt_list_json \in StreakInputs
    /\ streak_counts = None
    /\ DbIdle
    /\ TrackerIdle
    /\ ClassifierIdle
    /\ OthersIdle

CallCalculateConsecutiveStreaks ==
    /\ streak_counts = None
    /\ streak_counts' = Some(calculate_consecutive_streaks(putt_list_json))
    /\ UNCHANGED <<sessions, proc, selected, player_stats, notifications, career,
                   putt_list_json, tr, classifier, sweep, duel, league,
                   coach, fundraiser>>

NextStreaks == CallCalculateConsecutiveStreaks

SpecStreaks == InitStreaks /\ [][NextStreaks]_vars

-----------------------------------------------------------------------------
(* C3 *)

IsMake(putt_list, i) ==
    i \in DOMAIN putt_list /\ putt_list[i]["Putt Classification"] = "MAKE"

\* first positions of the maximal runs of consecutive MAKE putts
RunStarts(putt_list) ==
    {i \in DOMAIN putt_list : IsMake(putt_list, i) /\ ~IsMake(putt_list, i - 1)}

\* last positions of the maximal runs
RunEnds(putt_list) ==
    {j \in DOMAIN putt_list : IsMake(putt_list, j) /\ ~IsMake(putt_list, j + 1)}

\* length of the maximal run that starts at i
RunLength(putt_list, i) ==
    LET j == CHOOSE e \in RunEnds(putt_list) :
                 e >= i /\ \A f \in RunEnds(putt_list) : f >= i => e <= f
    IN j - i + 1

RECURSIVE SumOver(_, _, _)
SumOver(set, putt_list, T) ==
    IF set = {} THEN 0
    ELSE LET i == CHOOSE x \in set : TRUE
             L == RunLength(putt_list, i)
         IN (IF L >= T THEN L \div T ELSE 0) + SumOver(set \ {i}, putt_list, T)

BinnedStreaks(putt_list, T) == SumOver(RunStarts(putt_list), putt_list, T)

\* C3: for every putt list and every threshold T, the count returned for T
\* is the sum of floor(L / T) over the maximal runs of makes of length
\* L >= T; a single run of 21 makes gives 7,3,2,1,1,0,0.
C3_StreakBinning ==
    (streak_counts /= None /\ IsJson(putt_list_json)) =>
        /\ \A i \in DOMAIN categories :
              streak_counts.some[CategoryKey(categories[i])]
                  = BinnedStreaks(json_loads(putt_list_json), categories[i])
        /\ (json_loads(putt_list_json) = Repeat(MakePutt, 21)) =>
              streak_counts.some = ("3" :> 7) @@ ("7" :> 3) @@ ("10" :> 2) @@ ("15" :> 1)
                                   @@ ("21" :> 1) @@ ("50" :> 0) @@ ("100" :> 0)

\* a list with a run of 21 makes next to a merged run of 100 has been counted
C3_Witness ==
    /\ streak_counts /= None
    /\ IsJson(putt_list_json)
    /\ json_loads(putt_list_json)
          = Repeat(MakePutt, 21) \o Repeat(MissPutt, 1) \o Repeat(MakePutt, 100)
    /\ streak_counts.some["21"] = 5
    /\ streak_counts.some["100"] = 1

-----------------------------------------------------------------------------
(* The session clock of the tracking loop (checked under SpecTracker)      *)

\* a step of the loop that passes a sample to the classifier
SampleSubmitted == tr.pc = "loop" /\ tr'.samples = tr.samples + 1

\* the classifier reports the ball in the launch (ramp) zone in this sample
\* and has not reported it there before: an earlier report would have set
\* ball_in_ramp, and the following iteration the start time
FirstSeenInRamp ==
    /\ SampleSubmitted
    /\ tr.session_start_time = None
    /\ ~tr.ball_in_ramp
    /\ tr'.ball_in_ramp

C11_Step ==
    SampleSubmitted =>
        /\ FirstSeenInRamp => tr'.session_start_time = Some(tr'.now)
        /\ tr.session_start_time /= None =>
               tr'.session_start_time = tr.session_start_time
        /\ tr'.last_sample =
               IF tr'.session_start_time = None THEN Some(0)
               ELSE Some(tr'.now - tr'.session_start_time.some)

\* C11: the session clock starts in the sample in which the ball is first
\* seen in the launch zone: that sample sets the start time to its own
\* instant, the start time is never changed once set, and every sample
\* carries the time elapsed since the start, 0 before the start is set.
C11_ClockStartsWhenFirstSeen == [][C11_Step]_vars

-----------------------------------------------------------------------------
(* SpecRecords: get_career_stats over the session rows a player's table may *)
(* hold.  The rows are those update_session stores for a putt log, possibly *)
(* with one JSON column that holds other text (rows written by an earlier   *)
(* version or by another writer of the database): text that is not JSON, or *)
(* the JSON text 'null'.  The lifetime counters are recalculated.           *)

JsonColumns == {"makes_by_category", "misses_by_category", "putt_list"}

\* a log whose timestamps are not monotonic
NonMonotonicLog == Log(<<0, 40, 30>>, <<MakeTop, MissCatch, MissCatch>>)

RecordLogs ==
    {Log(<<0, 30, 60>>, <<MakeTop, MissCatch, MissReturn>>),
     Log(<<0, 40>>, <<MissCatch, MissCatch>>),
     NonMonotonicLog}

StoredRows ==
    LET good == {session_data(SessionReporter(log)) : log \in RecordLogs}
    IN good \cup {[r EXCEPT ![c] = Some(bad)] :
                     r \in good, c \in JsonColumns, bad \in {Malformed, JsonNull}}

RECURSIVE SeqsUpTo(_, _)
SeqsUpTo(S, n) ==
    IF n = 0 THEN {<<>>}
    ELSE LET shorter == SeqsUpTo(S, n - 1)
         IN shorter \cup {Append(q, x) : q \in shorter, x \in S}

InitRecords ==
    /\ sessions \in SeqsUpTo(StoredRows, MaxSessions)
    /\ proc = [i \in DOMAIN sessions |-> "done"]
    /\ selected = [i \in DOMAIN sessions |-> None]
    /\ player_stats = RecalculatedStats(sessions)
    /\ notifications = <<>>
    /\ career = None
    /\ StreaksIdle
    /\ TrackerIdle
    /\ ClassifierIdle
    /\ OthersIdle

NextRecords == GetCareerStats

SpecRecords == InitRecords /\ [][NextRecords]_vars

\* a JSON column that is present and is not the JSON the program writes
Broken(column) == column /= None /\ (~IsJson(column.some) \/ IsJsonNull(column.some))

\* the rows with every broken column replaced by NULL
WithoutBrokenColumns(rows) ==
    [i \in DOMAIN rows |->
        [c \in DOMAIN rows[i] |->
            IF c \in JsonColumns /\ Broken(rows[i][c]) THEN None ELSE rows[i][c]]]

\* C12: get_career_stats returns a summary whatever the category columns
\* hold, and the summary is the one obtained when every malformed or
\* unparsable column is absent: the session contributes nothing to the
\* broken field and its other fields are counted.
C12_MalformedTolerated ==
    career /= None =>
        /\ ~Raises(career.some)
        /\ career.some = get_career_stats(WithoutBrokenColumns(sessions), player_stats)

\* the attempt timestamps recorded in a session's putt list go backwards
NonMonotonic(session) ==
    /\ Decodes(session.putt_list)
    /\ ~IsJsonNull(session.putt_list.some)
    /\ LET putt_list == json_loads(session.putt_list.some)
       IN \E i, j \in DOMAIN putt_list :
             /\ i < j
             /\ putt_list[i]["current_frame_time"] > putt_list[j]["current_frame_time"]

MonotonicSessions(rows) == SelectSeq(rows, LAMBDA r : ~NonMonotonic(r))

\* C13: a session whose attempt timestamps are non-monotonic contributes to
\* no field of the career summary: the summary returned is the one of the
\* player's other sessions, with the lifetime counters of those sessions.
C13_NonMonotonicExcluded ==
    (career /= None /\ ~Raises(career.some)) =>
        career.some = get_career_stats(MonotonicSessions(sessions),
                                       RecalculatedStats(MonotonicSessions(sessions)))

-----------------------------------------------------------------------------
(* Re-running the aggregation (checked under Spec)                         *)

\* the step is the UPDATE of a recalculation whose SELECT read the session
\* data as it is now, after an earlier recalculation of the same data
RecalculatedAgain(i) ==
    /\ proc[i] \in {"selected", "backfill_selected"}
    /\ proc'[i] = "done"
    /\ sessions' = sessions
    /\ selected[i] = Some(RecalculatedStats(sessions))
    /\ player_stats = RecalculatedStats(sessions)

\* the step is a get_career_stats call that follows another one on an
\* unchanged database
CareerStatsAgain ==
    /\ career /= None
    /\ career' /= None
    /\ sessions' = sessions
    /\ player_stats' = player_stats

C14_Step ==
    /\ \A i \in DOMAIN proc : RecalculatedAgain(i) => player_stats' = player_stats
    /\ CareerStatsAgain => career' = career

AllFinalizationsFinished ==
    /\ sessions /= <<>>
    /\ \A i \in DOMAIN sessions :
          /\ proc[i] = "done"
          /\ sessions[i].status = Some("completed")
          /\ sessions[i].session_duration /= None

\* C15: once all concurrent finalisations of a player's sessions have
\* finished, the persisted lifetime totals are the values computed over all
\* of the player's completed sessions.
C15_NoInterference ==
    AllFinalizationsFinished => player_stats = RecalculatedStats(sessions)

-----------------------------------------------------------------------------
(* The lifetime fastest-to-21 (checked under Spec)                         *)

\* the smallest fastest_21_makes stored with the player's sessions, None
\* when no session has one
MinFastest21(rows) ==
    LET times == {rows[i].fastest_21_makes.some :
                     i \in {j \in DOMAIN rows : rows[j].fastest_21_makes /= None}}
    IN IF times = {} THEN None
       ELSE Some(CHOOSE t \in times : \A u \in times : t <= u)

\* no writer of the player's sessions has work left
NoWriterPending == \A i \in DOMAIN proc : proc[i] = "done"

\* C16: the lifetime fastest-to-21 is the minimum of the fastest-to-21 of
\* the player's sessions that reached 21 makes and null when there is none,
\* both as persisted once every writer has finished and as returned by
\* get_career_stats; a session with fewer than 21 makes is stored with null.
C16_LifetimeFastest21 ==
    /\ \A i \in DOMAIN sessions :
          /\ sessions[i].fastest_21_makes /= Inf
          /\ OrZero(sessions[i].total_makes) < 21 => sessions[i].fastest_21_makes = None
    /\ NoWriterPending => player_stats.fastest_21_makes = MinFastest21(sessions)
    /\ career /= None => career.some.low_fastest_21 = MinFastest21(sessions)

-----------------------------------------------------------------------------
(* Accuracy of a session                                                   *)

HasAttempts(session) ==
    OrZero(session.total_makes) + OrZero(session.total_misses) > 0

\* the largest of makes * 100 / (makes + misses) over the sessions of `rows`
\* that have attempts; None when no session has attempts
RECURSIVE BestAccuracy(_)
BestAccuracy(rows) ==
    IF rows = <<>> THEN None
    ELSE LET rest == BestAccuracy(Tail(rows))
             s == Head(rows)
             own == Rat(OrZero(s.total_makes) * 100,
                        OrZero(s.total_makes) + OrZero(s.total_misses))
         IN IF ~HasAttempts(s) THEN rest
            ELSE IF rest = None THEN Some(own)
            ELSE Some(RatMax(own, rest.some))

\* C17: the accuracy of a session is makes / (makes + misses), as a
\* percentage, when the session has attempts; high_accuracy of a returned
\* summary is the largest accuracy among the sessions with attempts (0 when
\* there is none), and it is the same as the high_accuracy of the summary
\* computed without the sessions that have no attempt.
C17_SessionAccuracy ==
    career /= None =>
        LET attempted == SelectSeq(sessions, HasAttempts)
            best == BestAccuracy(sessions)
        IN /\ RatEq(career.some.high_accuracy,
                    IF best = None THEN Rat(0, 1) ELSE best.some)
           /\ RatEq(career.some.high_accuracy,
                    get_career_stats(attempted, player_stats).high_accuracy)

\* a summary over a session of 1 make and 2 misses and a session without
\* any attempt: high_accuracy is 100/3
C17_Witness ==
    /\ career /= None
    /\ \E i \in DOMAIN sessions :
          /\ sessions[i].total_makes = Some(1)
          /\ sessions[i].total_misses = Some(2)
    /\ \E i \in DOMAIN sessions : ~HasAttempts(sessions[i])
    /\ RatEq(career.some.high_accuracy, Rat(100, 3))

-----------------------------------------------------------------------------
(* Makes by quadrant                                                       *)

\* the stored category tally of a session's makes; empty when the column
\* is NULL
MakeTally(session) ==
    IF Decodes(session.makes_by_category)
    THEN json_loads(session.makes_by_category.some) ELSE <<>>

\* the makes a session's tally records under category `cat`
TalliedMakes(session, cat) ==
    IF cat \in DOMAIN MakeTally(session) THEN MakeTally(session)[cat] ELSE 0

\* all makes of a session's tally under the categories of `cats`
TalliedIn(session, cats) ==
    SumCounts(MakeTally(session), DOMAIN MakeTally(session) \cap cats)

AllTalliedCategories == UNION {DOMAIN MakeTally(sessions[i]) : i \in DOMAIN sessions}

\* sum and high of every quadrant are the total and the largest
\* single-session count of the makes tallied under that quadrant
QuadrantSumAndHigh ==
    \A q \in Quadrants :
        /\ career.some.makes_overview[q].sum =
               SumSeq([i \in DOMAIN sessions |-> TalliedMakes(sessions[i], q)])
        /\ career.some.makes_overview[q].high =
               MaxSeq([i \in DOMAIN sessions |-> TalliedMakes(sessions[i], q)])

\* the makes counted by the four quadrants together
CountedInQuadrants ==
    SumCounts([q \in Quadrants |-> career.some.makes_overview[q].sum], Quadrants)

\* C18 as stated: sum and high of every quadrant are the total and the
\* largest single-session count of that quadrant's makes, and every make of
\* a session's category tally is counted toward exactly one quadrant: the
\* four quadrant sums together account for every tallied make.
C18_EveryMakeInOneQuadrant ==
    career /= None =>
        /\ QuadrantSumAndHigh
        /\ CountedInQuadrants =
               SumSeq([i \in DOMAIN sessions |->
                          TalliedIn(sessions[i], AllTalliedCategories)])

\* C18 amended: sum and high of every quadrant are the total and the
\* largest single-session count of the makes tallied under that quadrant, a
\* session without such makes counting as 0; a make tallied under a quadrant
\* is counted toward that quadrant only, and a make tallied under a category
\* that names no quadrant ("UNKNOWN") is counted toward no quadrant and
\* appears in makes_detailed alone.
C18_QuadrantMakes ==
    career /= None =>
        /\ QuadrantSumAndHigh
        /\ CountedInQuadrants =
               SumSeq([i \in DOMAIN sessions |-> TalliedIn(sessions[i], Quadrants)])
        /\ \A cat \in AllTalliedCategories :
              /\ cat \in DOMAIN career.some.makes_detailed
              /\ career.some.makes_detailed[cat].sum =
                     SumSeq([i \in DOMAIN sessions |-> TalliedMakes(sessions[i], cat)])

\* a summary over a session whose tally is RIGHT 7, UNKNOWN 7, LOW 7 and a
\* session with makes in TOP
C18_Witness ==
    /\ career /= None
    /\ \E i \in DOMAIN sessions :
          /\ TalliedMakes(sessions[i], "RIGHT") = 7
          /\ TalliedMakes(sessions[i], "UNKNOWN") = 7
    /\ \E i \in DOMAIN sessions : TalliedMakes(sessions[i], "TOP") > 0
    /\ career.some.makes_overview["RIGHT"] = [high |-> 7, sum |-> 7]
    /\ career.some.makes_overview["TOP"].sum > 0
    /\ career.some.makes_detailed["UNKNOWN"].sum = 7

-----------------------------------------------------------------------------
(* Misses by detailed subtype                                              *)

\* the stored attempt list of a session; empty when the column is NULL
StoredPutts(session) ==
    IF Decodes(session.putt_list) THEN json_loads(session.putt_list.some) ELSE <<>>

\* how many misses of subtype `detail` the attempt list of a session holds
MissCount(session, detail) ==
    Cardinality({k \in DOMAIN StoredPutts(session) :
        /\ StoredPutts(session)[k]["Putt Classification"] = "MISS"
        /\ StoredPutts(session)[k]["Putt Detailed Classification"] = detail})

\* the detailed classifications of the misses of all sessions
MissDetails ==
    UNION {{StoredPutts(sessions[i])[k]["Putt Detailed Classification"] :
               k \in {j \in DOMAIN StoredPutts(sessions[i]) :
                         StoredPutts(sessions[i])[j]["Putt Classification"] = "MISS"}} :
           i \in DOMAIN sessions}

\* the sessions in which the subtype occurred
OccurredIn(detail) == {i \in DOMAIN sessions : MissCount(sessions[i], detail) > 0}

\* C19: misses_detailed of a returned summary has one entry per miss
\* subtype that occurred, keyed by the subtype without its 'MISS - ' prefix;
\* its low is the minimum, its high the maximum and its sum the total of the
\* subtype's per-session counts over the sessions in which it occurred, and
\* 1 <= low <= high <= sum.
C19_MissesDetailed ==
    career /= None =>
        LET detailed == career.some.misses_detailed
        IN /\ DOMAIN detailed = {StripPrefix(d) : d \in MissDetails}
           /\ \A d \in MissDetails :
                 LET entry == detailed[StripPrefix(d)]
                     counts == {MissCount(sessions[i], d) : i \in OccurredIn(d)}
                 IN /\ entry.low \in {Some(c) : c \in counts}
                    /\ entry.high \in counts
                    /\ \A c \in counts : entry.low.some <= c /\ c <= entry.high
                    /\ entry.sum =
                           SumSeq([i \in DOMAIN sessions |-> MissCount(sessions[i], d)])
                    /\ 1 <= entry.low.some
                    /\ entry.low.some <= entry.high
                    /\ entry.high <= entry.sum

\* a summary over a session with one CATCH miss and a session with two
C19_Witness ==
    /\ career /= None
    /\ \E i \in DOMAIN sessions : MissCount(sessions[i], "MISS - CATCH") = 1
    /\ \E i \in DOMAIN sessions : MissCount(sessions[i], "MISS - CATCH") = 2
    /\ "CATCH" \in DOMAIN career.some.misses_detailed
    /\ career.some.misses_detailed["CATCH"] = [low |-> Some(1), high |-> 2, sum |-> 3]

-----------------------------------------------------------------------------
(* SpecClassifier: the trajectory classifier behind                        *)
(* putt_classifier.update_and_classify, which run_tracker.main calls once  *)
(* per frame.  The classifier's module is not among the sources; its rules *)
(* are those of section 4.1 of the specification.  classifier holds the    *)
(* classifier's state, the current TransitionRecord (trace), the number of *)
(* consecutive samples without detection, the number of samples taken, the *)
(* zones of the last sample and the attempt that sample resolved, if any.  *)

MaxSamples == 6

\* the configured timeout, counted in samples without detection
TimeoutSamples == 1

\* launch, target, return, catch and rest-of-field zone
Zones == {"RAMP", "HOLE", "RETURN", "CATCH", "MAT"}

\* a sample: the zones the detected ball is inside (none: no detection) and
\* the quadrant subzone of the target zone, "UNKNOWN" when none is resolved
Samples ==
    {[zones |-> zs, quadrant |-> "UNKNOWN"] : zs \in SUBSET Zones}
        \cup {[zones |-> {"HOLE"}, quadrant |-> q] : q \in Quadrants}

\* the four miss conditions in their priority order
MissPriority == <<"RETURN", "CATCH", "TIMEOUT", "QUICK PUTT">>

\* the zone entry a sample contributes to the trace
EnteredZone(zs) ==
    LET order == <<"HOLE", "RETURN", "CATCH", "RAMP", "MAT">>
        first == CHOOSE k \in DOMAIN order :
                     order[k] \in zs /\ \A j \in 1..(k - 1) : order[j] \notin zs
    IN order[first]

\* an attempt is in progress and the ball is inside the target zone
MakeHeld(c, zs) == c.state = "TRACKING" /\ "HOLE" \in zs

\* the miss conditions that hold for a sample while an attempt is in progress
MissesHeld(c, zs) ==
    {m \in {MissPriority[k] : k \in DOMAIN MissPriority} :
        /\ c.state = "TRACKING"
        /\ CASE m = "RETURN" ->
                    "RETURN" \in zs /\ \E k \in DOMAIN c.trace : c.trace[k] /= "RAMP"
             [] m = "CATCH" -> "CATCH" \in zs
             [] m = "TIMEOUT" -> zs = {} /\ c.silent + 1 > TimeoutSamples
             [] m = "QUICK PUTT" -> "RAMP" \in zs /\ c.trace[Len(c.trace)] /= "RAMP"}

\* mutant: the condition of lowest priority claims the attempt
LastMiss(held) ==
    MissPriority[CHOOSE k \in DOMAIN MissPriority :
        /\ MissPriority[k] \in held
        /\ \A j \in (k + 1)..Len(MissPriority) : MissPriority[j] \notin held]

\* the condition of highest priority among those that hold
FirstMiss(held) ==
    MissPriority[CHOOSE k \in DOMAIN MissPriority :
        /\ MissPriority[k] \in held
        /\ \A j \in 1..(k - 1) : MissPriority[j] \notin held]

\* the classifier after one sample
update_and_classify(c, sample) ==
    LET zs == sample.zones
        seen == [c EXCEPT !.samples = @ + 1, !.zones = zs, !.attempt = None]
    IN IF c.state /= "TRACKING"
       THEN IF "RAMP" \in zs
            THEN [seen EXCEPT !.state = "TRACKING", !.trace = <<"RAMP">>, !.silent = 0]
            ELSE seen
       ELSE IF MakeHeld(c, zs)
       THEN [seen EXCEPT !.state = "IDLE", !.trace = <<>>, !.silent = 0,
                         !.attempt = Some([classification |-> "MAKE",
                                           subtype |-> sample.quadrant,
                                           entry |-> "", exit |-> ""])]
       ELSE IF MissesHeld(c, zs) /= {}
       THEN [seen EXCEPT !.state = "IDLE", !.trace = <<>>, !.silent = 0,
                         !.attempt =
                             Some([classification |-> "MISS",
                                   subtype |-> FirstMiss(MissesHeld(c, zs)),
                                   entry |-> IF FirstMiss(MissesHeld(c, zs)) = "RETURN"
                                             THEN c.trace[1] ELSE "",
                                   exit |-> IF FirstMiss(MissesHeld(c, zs)) = "RETURN"
                                            THEN c.trace[Len(c.trace)] ELSE ""])]
       ELSE IF zs = {}
       THEN [seen EXCEPT !.silent = @ + 1]
       ELSE [seen EXCEPT !.silent = 0,
                         !.trace = IF @[Len(@)] = EnteredZone(zs) THEN @
                                   ELSE Append(@, EnteredZone(zs))]

InitClassifier ==
    /\ classifier = [state |-> "PRE_SESSION", trace |-> <<>>, silent |-> 0,
                     samples |-> 0, zones |-> {}, attempt |-> None]
    /\ DbIdle
    /\ StreaksIdle
    /\ TrackerIdle
    /\ OthersIdle

UpdateAndClassify(sample) ==
    /\ classifier.samples < MaxSamples
    /\ classifier' = update_and_classify(classifier, sample)
    /\ DbUnchanged
    /\ StreaksUnchanged
    /\ UNCHANGED tr
    /\ OthersUnchanged

NextClassifier == \E sample \in Samples : UpdateAndClassify(sample)

SpecClassifier == InitClassifier /\ [][NextClassifier]_vars

\* the place of a miss condition in the priority order
Rank(m) == CHOOSE k \in DOMAIN MissPriority : MissPriority[k] = m

C20_Step ==
    (classifier'.samples = classifier.samples + 1 /\ classifier'.attempt /= None) =>
        LET attempt == classifier'.attempt.some
            held == MissesHeld(classifier, classifier'.zones)
        IN /\ attempt.classification \in {"MAKE", "MISS"}
           /\ attempt.classification = "MAKE" => "HOLE" \in classifier'.zones
           /\ attempt.classification = "MISS" =>
                 /\ attempt.subtype \in held
                 /\ \A m \in held : Rank(attempt.subtype) <= Rank(m)
           /\ classifier'.trace = <<>>
           /\ classifier'.state = "IDLE"

\* C20: a sample resolves at most one attempt; an attempt resolved as MAKE
\* is resolved by a sample with the ball inside the target zone; an attempt
\* resolved as MISS carries one of the four miss conditions RETURN, CATCH,
\* TIMEOUT, QUICK PUTT, that condition held for the sample, and no
\* condition of higher priority held; the trace is cleared by the
\* resolution, so no second condition claims the same attempt.
C20_ClassifierOutcomes == [][C20_Step]_vars

\* a miss resolved as RETURN by a sample with the ball inside both the
\* return zone and the catch zone
C20_Witness ==
    /\ classifier /= None
    /\ classifier.attempt /= None
    /\ classifier.attempt.some.classification = "MISS"
    /\ classifier.attempt.some.subtype = "RETURN"
    /\ {"RETURN", "CATCH"} \subseteq classifier.zones
    /\ classifier.state = "IDLE"

-----------------------------------------------------------------------------
(* SpecSweep: the reporter's most_makes_in_60_seconds, which update_session *)
(* stores as it receives it.  The reporter's module is not among the       *)
(* sources; the sweep is the one section 4.2 of the specification          *)
(* describes.  sweep holds the make timestamps of a session, in the order  *)
(* of the log, and the value computed from them.                           *)

MaxMakes == 5

\* the timestamps a make can carry
MakeTimes == {0, 10, 20, 61, 70, 71}

\* mutant: a timestamp exactly 60 seconds old is discarded as well
AtLeast60(current, timestamp) == current - timestamp >= 60

\* a timestamp is older than 60 seconds from the current one
OlderThan60(current, timestamp) == current - timestamp > 60

\* the forward sweep: the window keeps the timestamps not discarded, the
\* result is the largest size the window had
RECURSIVE SweepMakes(_, _, _)
SweepMakes(timestamps, window, most) ==
    IF timestamps = <<>> THEN most
    ELSE LET current == Head(timestamps)
             kept == SelectSeq(window, LAMBDA t : ~OlderThan60(current, t))
                         \o <<current>>
         IN SweepMakes(Tail(timestamps), kept, Max2(most, Len(kept)))

most_makes_in_60_seconds(timestamps) == SweepMakes(timestamps, <<>>, 0)

\* make timestamps in the order of the log
MakeTimestamps ==
    {ts \in UNION {[1..n -> MakeTimes] : n \in 0..MaxMakes} :
        \A i \in 1..(Len(ts) - 1) : ts[i] <= ts[i + 1]}

InitSweep ==
    /\ sweep \in {[timestamps |-> ts, most |-> None] : ts \in MakeTimestamps}
    /\ DbIdle
    /\ StreaksIdle
    /\ TrackerIdle
    /\ ClassifierIdle
    /\ duel = None
    /\ league = None
    /\ coach = None
    /\ fundraiser = None

CallMostMakesIn60 ==
    /\ sweep.most = None
    /\ sweep' = [sweep EXCEPT !.most = Some(most_makes_in_60_seconds(sweep.timestamps))]
    /\ DbUnchanged
    /\ StreaksUnchanged
    /\ ClassifierUnchanged
    /\ UNCHANGED <<tr, duel, league, coach, fundraiser>>

NextSweep == CallMostMakesIn60

SpecSweep == InitSweep /\ [][NextSweep]_vars

\* the makes inside the window of 60 seconds that ends at the i-th make
InWindow(i) ==
    {j \in 1..i : sweep.timestamps[i] - sweep.timestamps[j] <= 60}

\* the largest number of makes in a window anchored at a make; 0 without makes
MostInAnyWindow ==
    SetMax({Cardinality(InWindow(i)) : i \in DOMAIN sweep.timestamps} \cup {0})

-----------------------------------------------------------------------------
(* SpecWinner: the winner decision of check_and_complete_duel              *)
(* (data_manager.py), applied to the statistics of the two submitted       *)
(* sessions.  duel holds the two rows read from the sessions table and the *)
(* winner_id computed from them (None before the decision, Some(None) for  *)
(* a draw).  The players are named by their role in the duel.              *)

\* the columns check_and_complete_duel reads from a submitted session
SubmittedStats ==
    [total_makes : {1, 2},
     fastest_21_makes : {None, Some(1), Some(2)},
     best_streak : {1, 2},
     total_misses : {0, 1},
     session_duration : {None, Some(1), Some(2)}]

\* mutant: a missing value beats every value
LowerWinsNoneBest(mine, theirs) ==
    \/ mine = None /\ theirs /= None
    \/ mine /= None /\ theirs /= None /\ mine.some < theirs.some

\* x is not None and (y is None or x < y)
LowerWins(mine, theirs) ==
    mine /= None /\ (theirs = None \/ mine.some < theirs.some)

\* winner_id after the rules of check_and_complete_duel
DuelWinner(creator_stats, invited_stats) ==
    IF creator_stats.total_makes > invited_stats.total_makes THEN Some("creator")
    ELSE IF invited_stats.total_makes > creator_stats.total_makes THEN Some("invited")
    ELSE IF LowerWins(creator_stats.fastest_21_makes, invited_stats.fastest_21_makes)
    THEN Some("creator")
    ELSE IF LowerWins(invited_stats.fastest_21_makes, creator_stats.fastest_21_makes)
    THEN Some("invited")
    ELSE IF creator_stats.best_streak > invited_stats.best_streak THEN Some("creator")
    ELSE IF invited_stats.best_streak > creator_stats.best_streak THEN Some("invited")
    ELSE IF creator_stats.total_misses < invited_stats.total_misses THEN Some("creator")
    ELSE IF invited_stats.total_misses < creator_stats.total_misses THEN Some("invited")
    ELSE IF LowerWins(creator_stats.session_duration, invited_stats.session_duration)
    THEN Some("creator")
    ELSE IF LowerWins(invited_stats.session_duration, creator_stats.session_duration)
    THEN Some("invited")
    ELSE None

InitWinner ==
    /\ duel \in [creator_stats : SubmittedStats, invited_stats : SubmittedStats,
                 winner_id : {None}]
    /\ DbIdle
    /\ StreaksIdle
    /\ TrackerIdle
    /\ ClassifierIdle
    /\ sweep = None
    /\ league = None
    /\ coach = None
    /\ fundraiser = None

DecideWinner ==
    /\ duel.winner_id = None
    /\ duel' = [duel EXCEPT
                  !.winner_id = Some(DuelWinner(duel.creator_stats, duel.invited_stats))]
    /\ DbUnchanged
    /\ StreaksUnchanged
    /\ ClassifierUnchanged
    /\ UNCHANGED <<tr, sweep, league, coach, fundraiser>>

NextWinner == DecideWinner

SpecWinner == InitWinner /\ [][NextWinner]_vars

\* the five criteria in their order, each as a number for which more is
\* better; a missing time or duration is worse than every value
Criteria(stats) ==
    <<stats.total_makes,
      IF stats.fastest_21_makes = None THEN -3 ELSE 0 - stats.fastest_21_makes.some,
      stats.best_streak,
      0 - stats.total_misses,
      IF stats.session_duration = None THEN -3 ELSE 0 - stats.session_duration.some>>

\* a beats b: at the first criterion on which they differ, a is better
Beats(a, b) ==
    \E k \in 1..5 :
        /\ \A j \in 1..(k - 1) : Criteria(a)[j] = Criteria(b)[j]
        /\ Criteria(a)[k] > Criteria(b)[k]

\* C24: the winner is the player who is better at the first of the five
\* criteria (more makes, lower fastest-21 with a missing time worst, higher
\* best streak, fewer misses, shorter duration) on which the two sessions
\* differ, and the duel is a draw when they differ on none; exchanging the
\* two sessions exchanges the winner and keeps a draw.
C24_WinnerRules ==
    (duel /= None /\ duel.winner_id /= None) =>
        LET c == duel.creator_stats
            i == duel.invited_stats
            winner_id == duel.winner_id.some
            exchanged == DuelWinner(i, c)
        IN /\ winner_id = Some("creator") <=> Beats(c, i)
           /\ winner_id = Some("invited") <=> Beats(i, c)
           /\ winner_id = None <=> Criteria(c) = Criteria(i)
           /\ winner_id = Some("creator") <=> exchanged = Some("invited")
           /\ winner_id = Some("invited") <=> exchanged = Some("creator")
           /\ winner_id = None <=> exchanged = None

\* the invited player wins on the fastest-21 time: equal makes, the creator
\* never reached 21 makes
C24_Witness ==
    /\ duel /= None
    /\ duel.winner_id = Some(Some("invited"))
    /\ duel.creator_stats.total_makes = duel.invited_stats.total_makes
    /\ duel.creator_stats.fastest_21_makes = None
    /\ duel.invited_stats.fastest_21_makes = Some(2)
    /\ duel.creator_stats.best_streak > duel.invited_stats.best_streak

-----------------------------------------------------------------------------
(* SpecDuel: one duel between its creator and the invited player, from the *)
(* row create_duel inserted.  A submit_duel_session call is one            *)
(* transaction: its UPDATE locks the duel row until the commit, so the     *)
(* UPDATE of another transaction waits for it and other transactions read  *)
(* the committed row meanwhile.  duel.row is the committed row, duel.lock  *)
(* the submission whose transaction holds the row lock, duel.pending the   *)
(* row as that transaction sees it.  Every submission comes from a tracker *)
(* with a session of its own: the session id is the submission's index.    *)
(* duel.completions counts the UPDATEs that set the status to 'completed'  *)
(* and duel.completed_as keeps the result columns written by the first.    *)

MaxSubmissions == 3

\* the statistics of the sessions the trackers submit
DuelSessions ==
    {[total_makes |-> 2, fastest_21_makes |-> None, best_streak |-> 2,
      total_misses |-> 0, session_duration |-> Some(1)],
     [total_makes |-> 1, fastest_21_makes |-> None, best_streak |-> 1,
      total_misses |-> 1, session_duration |-> Some(1)]}

ResultTypes == {"DUEL_WON", "DUEL_LOST", "DUEL_DRAW"}

\* the notifications table: how many rows of each type each player has
NoDuelNotifications ==
    [player \in {"creator", "invited"} |->
        [type \in ResultTypes \cup {"DUEL_OPPONENT_SUBMITTED", "DUEL_EXPIRED"} |-> 0]]

\* create_in_app_notification for each element of `created`
RECURSIVE Notified(_, _)
Notified(table, created) ==
    IF created = <<>> THEN table
    ELSE Notified([table EXCEPT ![Head(created).player][Head(created).type] = @ + 1],
                  Tail(created))

Opponent(player) == IF player = "creator" THEN "invited" ELSE "creator"

\* the notifications check_and_complete_duel creates for a winner_id
ResultNotifications(winner_id) ==
    IF winner_id = None
    THEN <<[player |-> "creator", type |-> "DUEL_DRAW"],
           [player |-> "invited", type |-> "DUEL_DRAW"]>>
    ELSE <<[player |-> winner_id.some, type |-> "DUEL_WON"],
           [player |-> Opponent(winner_id.some), type |-> "DUEL_LOST"]>>

\* mutant: the duel is completed as soon as its row is found
ReadyToCompleteAnyStatus(row) ==
    /\ row.creator_submitted_session_id /= None
    /\ row.invited_player_submitted_session_id /= None

\* check_and_complete_duel proceeds: the duel is 'accepted' and both
\* players have submitted
ReadyToComplete(row) ==
    /\ row.status = "accepted"
    /\ row.creator_submitted_session_id /= None
    /\ row.invited_player_submitted_session_id /= None

\* check_and_complete_duel on the row the transaction sees
check_and_complete_duel(d, row) ==
    IF ~ReadyToComplete(row) THEN [d EXCEPT !.row = row]
    ELSE LET winner_id ==
                 DuelWinner(d.submissions[row.creator_submitted_session_id.some].stats,
                            d.submissions[row.invited_player_submitted_session_id.some].stats)
             completed == [row EXCEPT !.status = "completed", !.winner_id = winner_id]
         IN [d EXCEPT !.row = completed,
                      !.completions = @ + 1,
                      !.completed_as = IF @ = None THEN Some(completed) ELSE @,
                      !.notifications = Notified(@, ResultNotifications(winner_id))]

InitDuel ==
    /\ duel = [row |-> [status |-> "pending",
                        creator_submitted_session_id |-> None,
                        invited_player_submitted_session_id |-> None,
                        winner_id |-> None],
               lock |-> None, pending |-> None,
               submissions |-> <<>>,
               scheduler |-> None, past_expiry |-> FALSE,
               accept_call |-> None,
               notifications |-> NoDuelNotifications, completions |-> 0,
               completed_as |-> None]
    /\ DbIdle
    /\ StreaksIdle
    /\ TrackerIdle
    /\ ClassifierIdle
    /\ sweep = None
    /\ league = None
    /\ coach = None
    /\ fundraiser = None

DuelFrame ==
    /\ DbUnchanged
    /\ StreaksUnchanged
    /\ ClassifierUnchanged
    /\ UNCHANGED <<tr, sweep, league, coach, fundraiser>>

\* a tracker started with --duel_id calls submit_duel_session: the SELECT
\* of the two player ids
SubmitSelect(player, stats) ==
    /\ Len(duel.submissions) < MaxSubmissions
    /\ duel' = [duel EXCEPT !.submissions =
                   Append(@, [player |-> player, stats |-> stats, pc |-> "selected",
                              status_at_update |-> None])]
    /\ DuelFrame

\* the UPDATE of the player's column; it waits while the row is locked
SubmitUpdate(k) ==
    /\ duel.submissions[k].pc = "selected"
    /\ duel.lock = None
    /\ duel' = [duel EXCEPT
                  !.lock = Some(k),
                  !.pending = Some(IF duel.submissions[k].player = "creator"
                                   THEN [duel.row EXCEPT !.creator_submitted_session_id = Some(k)]
                                   ELSE [duel.row EXCEPT !.invited_player_submitted_session_id = Some(k)]),
                  !.submissions[k].pc = "updated",
                  !.submissions[k].status_at_update = Some(duel.row.status)]
    /\ DuelFrame

\* check_and_complete_duel, the notification of the opponent, the commit
SubmitCheckAndCommit(k) ==
    /\ duel.submissions[k].pc = "updated"
    /\ duel.lock = Some(k)
    /\ duel' = [check_and_complete_duel(duel, duel.pending.some) EXCEPT
                  !.lock = None, !.pending = None,
                  !.submissions[k].pc = "done",
                  !.notifications =
                      Notified(@, <<[player |-> Opponent(duel.submissions[k].player),
                                     type |-> "DUEL_OPPONENT_SUBMITTED"]>>)]
    /\ DuelFrame

\* accept_duel: one UPDATE ... WHERE invited_player_id = :player_id AND
\* status = 'pending'; ValueError when no row was updated
AcceptDuel(player) ==
    /\ duel.lock = None
    /\ duel' = IF player = "invited" /\ duel.row.status = "pending"
               THEN [duel EXCEPT !.row.status = "accepted",
                                 !.accept_call = Some([player |-> player, raised |-> FALSE])]
               ELSE [duel EXCEPT !.accept_call = Some([player |-> player, raised |-> TRUE])]
    /\ DuelFrame

\* reject_duel: one UPDATE ... WHERE status = 'pending'
RejectDuel ==
    /\ duel.lock = None
    /\ duel.row.status = "pending"
    /\ duel' = [duel EXCEPT !.row.status = "declined"]
    /\ DuelFrame

\* invitation_expires_at passes
InvitationExpires ==
    /\ ~duel.past_expiry
    /\ duel' = [duel EXCEPT !.past_expiry = TRUE]
    /\ DuelFrame

\* expire_pending_duels: the SELECT of the pending duels past their expiry
ExpireSelect ==
    /\ duel.scheduler = None
    /\ duel.row.status = "pending"
    /\ duel.past_expiry
    /\ duel' = [duel EXCEPT !.scheduler = Some("selected")]
    /\ DuelFrame

\* expire_pending_duels: UPDATE ... WHERE duel_id = :duel_id for a selected
\* duel, and the two notifications
ExpireUpdate ==
    /\ duel.scheduler = Some("selected")
    /\ duel.lock = None
    /\ duel' = [duel EXCEPT
                  !.row.status = "expired",
                  !.scheduler = None,
                  !.notifications =
                      Notified(@, <<[player |-> "creator", type |-> "DUEL_EXPIRED"],
                                    [player |-> "invited", type |-> "DUEL_EXPIRED"]>>)]
    /\ DuelFrame

NextDuel ==
    \/ \E player \in {"creator", "invited"}, stats \in DuelSessions :
           SubmitSelect(player, stats)
    \/ \E k \in DOMAIN duel.submissions : SubmitUpdate(k)
    \/ \E k \in DOMAIN duel.submissions : SubmitCheckAndCommit(k)
    \/ \E player \in {"creator", "invited"} : AcceptDuel(player)
    \/ RejectDuel
    \/ InvitationExpires
    \/ ExpireSelect
    \/ ExpireUpdate

SpecDuel == InitDuel /\ [][NextDuel]_vars

\* the result notifications created for a player
ResultCount(player) ==
    duel.notifications[player]["DUEL_WON"] + duel.notifications[player]["DUEL_LOST"]
        + duel.notifications[player]["DUEL_DRAW"]

\* a submission of the player committed, made while the duel was accepted
SubmittedWhileAccepted(player) ==
    \E k \in DOMAIN duel.submissions :
        /\ duel.submissions[k].player = player
        /\ duel.submissions[k].pc = "done"
        /\ duel.submissions[k].status_at_update = Some("accepted")

\* C22: under every interleaving of the submissions the duel is set to
\* 'completed' at most once; each player has exactly one result
\* notification (DUEL_WON, DUEL_LOST or DUEL_DRAW) once it was, and none
\* before; and it has been completed once both players' submissions to the
\* accepted duel are committed.
C22_CompletedOnce ==
    duel /= None =>
        /\ duel.completions <= 1
        /\ \A player \in {"creator", "invited"} : ResultCount(player) = duel.completions
        /\ (SubmittedWhileAccepted("creator") /\ SubmittedWhileAccepted("invited"))
               => duel.completions = 1

\* the invited player's submission waited for the creator's transaction,
\* and the duel was completed by it: the creator won 2 to 1
C22_Witness ==
    /\ duel /= None
    /\ Len(duel.submissions) = 2
    /\ duel.submissions[1].player = "creator"
    /\ duel.submissions[2].player = "invited"
    /\ duel.submissions[1].status_at_update = Some("accepted")
    /\ duel.row.status = "completed"
    /\ duel.row.winner_id = Some("creator")
    /\ duel.completions = 1
    /\ ResultCount("creator") = 1
    /\ ResultCount("invited") = 1

\* the status changes the claim allows
AllowedStatusChanges ==
    {<<"pending", "accepted">>, <<"pending", "declined">>,
     <<"pending", "expired">>, <<"accepted", "completed">>}

C23_Step ==
    /\ duel'.row.status /= duel.row.status =>
          /\ <<duel.row.status, duel'.row.status>> \in AllowedStatusChanges
          /\ duel'.row.status = "accepted" =>
                duel'.accept_call = Some([player |-> "invited", raised |-> FALSE])
          /\ duel'.row.status = "expired" => duel.past_expiry
          /\ duel'.row.status = "completed" =>
                /\ duel'.row.creator_submitted_session_id /= None
                /\ duel'.row.invited_player_submitted_session_id /= None
    /\ (duel'.accept_call /= duel.accept_call /\ duel'.accept_call.some.raised) =>
          duel'.row = duel.row

\* C23: the status of a duel only moves pending -> accepted (accept_duel
\* by the invited player), pending -> declined, pending -> expired (after
\* the expiry time) and accepted -> completed (both players have
\* submitted); declined, expired and completed are never left; an
\* accept_duel call that raises ValueError leaves the row unchanged.
C23_StatusTransitions == [][C23_Step]_vars

\* C25: once the duel was completed, winner_id and the two submitted
\* session ids of its row are those written at completion.
C25_ResultFrozen ==
    (duel /= None /\ duel.completed_as /= None) =>
        /\ duel.row.winner_id = duel.completed_as.some.winner_id
        /\ duel.row.creator_submitted_session_id =
               duel.completed_as.some.creator_submitted_session_id
        /\ duel.row.invited_player_submitted_session_id =
               duel.completed_as.some.invited_player_submitted_session_id

(***************************************************************************)
(* SpecLeague: one league of data_manager.py, its rounds and its members.  *)
(* Every handler runs in one transaction and is one action; the clock      *)
(* advances between the calls.                                             *)
(***************************************************************************)

\* settings['num_rounds'] of the leagues created, and the last clock value
MaxRounds == 2
MaxLeagueClock == 3

\* settings['round_duration_hours'], in clock units
round_duration_hours == 1

LeaguePlayers == {"p1", "p2", "p3"}

\* the settings dictionaries handed to create_league and update_league_settings
LeagueSettings ==
    [start_offset_hours : {0, 1}, allow_late_joiners : BOOLEAN,
     members_can_invite : BOOLEAN]

\* the last call when it was join_league or remove_league_member, and how
\* it ended ("ok" or "ValueError")
Call(op, player, target, result) ==
    [op |-> op, player |-> player, target |-> target, result |-> result]

\* the last call was another one
NoCall == Call("-", "-", "-", "ok")

\* the rows of league_rounds inserted by _create_league_rounds, by round_number
_create_league_rounds(league_start_time) ==
    [i \in 1..MaxRounds |->
        [status |-> "scheduled",
         start_time |-> league_start_time + (i - 1) * round_duration_hours,
         end_time |-> league_start_time + (i - 1) * round_duration_hours
                          + round_duration_hours]]

\* no row of the leagues table (and, by ON DELETE CASCADE, no member, no round)
NoLeague(now) ==
    [exists |-> FALSE, creator_id |-> "-", privacy_type |-> "-",
     allow_late_joiners |-> FALSE, members_can_invite |-> FALSE,
     start_time |-> 0, status |-> "-",
     members |-> [p \in LeaguePlayers |-> "none"],
     rounds |-> <<>>, completed_rounds |-> <<>>,
     now |-> now, last |-> NoCall]

ActiveRounds(l) == {i \in DOMAIN l.rounds : l.rounds[i].status = "active"}

ScheduledRounds(l) == {i \in DOMAIN l.rounds : l.rounds[i].status = "scheduled"}

\* _complete_round: the round is completed, then the round with the next
\* number is activated if it is 'scheduled', else the league is completed
_complete_round(l, round_id) ==
    LET done == [l EXCEPT !.rounds[round_id].status = "completed",
                          !.completed_rounds = Append(@, round_id)]
    IN  IF round_id + 1 \in DOMAIN l.rounds
             /\ done.rounds[round_id + 1].status = "scheduled"
        THEN [done EXCEPT !.rounds[round_id + 1].status = "active"]
        ELSE [done EXCEPT !.status = "completed"]

\* the loop of get_league_details over the active rounds it fetched
RECURSIVE CompleteEnded(_, _)
CompleteEnded(l, active_rounds_to_check) ==
    IF active_rounds_to_check = <<>> THEN l
    ELSE LET r == Head(active_rounds_to_check)
         IN  CompleteEnded(IF l.now > l.rounds[r].end_time
                           THEN _complete_round(l, r) ELSE l,
                           Tail(active_rounds_to_check))

\* the orders in which a SELECT without ORDER BY can return the rows
RowOrders(rows) ==
    {order \in [1..Cardinality(rows) -> rows] :
        \A i, j \in 1..Cardinality(rows) : order[i] = order[j] => i = j}

\* get_league_details up to the fetch of the active rounds: a registering
\* league whose start time is reached becomes active; the first scheduled
\* round of an active league is activated when no round is active and its
\* start time is reached
ActivateLeagueAndRound(l) ==
    LET started == IF l.status = "registering" /\ l.now >= l.start_time
                   THEN [l EXCEPT !.status = "active"] ELSE l
        scheduled_rounds_to_check ==
            IF started.status = "active" THEN ScheduledRounds(started) ELSE {}
    IN  IF scheduled_rounds_to_check /= {} /\ ActiveRounds(started) = {}
        THEN LET round_to_activate ==
                     CHOOSE i \in scheduled_rounds_to_check :
                         \A j \in scheduled_rounds_to_check : i <= j
             IN  IF started.now >= started.rounds[round_to_activate].start_time
                 THEN [started EXCEPT !.rounds[round_to_activate].status = "active"]
                 ELSE started
        ELSE started

\* start_pending_league_rounds: every scheduled round whose start time is reached
start_pending_league_rounds(l) ==
    [l EXCEPT !.rounds =
        [i \in DOMAIN l.rounds |->
            IF l.rounds[i].status = "scheduled" /\ l.rounds[i].start_time <= l.now
            THEN [l.rounds[i] EXCEPT !.status = "active"]
            ELSE l.rounds[i]]]

InitLeague ==
    /\ league = NoLeague(0)
    /\ DbIdle
    /\ StreaksIdle
    /\ TrackerIdle
    /\ ClassifierIdle
    /\ sweep = None
    /\ duel = None
    /\ coach = None
    /\ fundraiser = None

LeagueFrame ==
    /\ DbUnchanged
    /\ StreaksUnchanged
    /\ ClassifierUnchanged
    /\ UNCHANGED <<tr, sweep, duel, coach, fundraiser>>

LeagueTick ==
    /\ league.now < MaxLeagueClock
    /\ league' = [league EXCEPT !.now = @ + 1, !.last = NoCall]
    /\ LeagueFrame

CreateLeague(creator_id, privacy_type, settings) ==
    /\ ~league.exists
    /\ league' =
          [exists |-> TRUE, creator_id |-> creator_id, privacy_type |-> privacy_type,
           allow_late_joiners |-> settings.allow_late_joiners,
           members_can_invite |-> settings.members_can_invite,
           start_time |-> league.now + settings.start_offset_hours,
           status |-> IF settings.start_offset_hours > 0 THEN "registering" ELSE "active",
           members |-> [p \in LeaguePlayers |->
                           IF p = creator_id THEN "active" ELSE "none"],
           rounds |-> _create_league_rounds(league.now + settings.start_offset_hours),
           completed_rounds |-> <<>>,
           now |-> league.now,
           last |-> NoCall]
    /\ LeagueFrame

GetLeagueDetails ==
    /\ league.exists
    /\ LET activated == ActivateLeagueAndRound(league)
       IN  \E order \in RowOrders(ActiveRounds(activated)) :
               league' = [CompleteEnded(activated, order) EXCEPT !.last = NoCall]
    /\ LeagueFrame

StartPendingLeagueRounds ==
    /\ league.exists
    /\ league' = [start_pending_league_rounds(league) EXCEPT !.last = NoCall]
    /\ LeagueFrame

\* the checks of join_league, in the order of the code
JoinRejected(l, player_id) ==
    \/ l.status = "active" /\ ~l.allow_late_joiners
    \/ l.status \notin {"registering", "active"}
    \/ l.members[player_id] = "active"
    \/ l.privacy_type = "private" /\ l.members[player_id] = "none"

JoinLeague(player_id) ==
    /\ league.exists
    /\ league' =
          IF JoinRejected(league, player_id)
          THEN [league EXCEPT !.last = Call("join_league", player_id, "-", "ValueError")]
          ELSE [league EXCEPT !.members[player_id] = "active",
                              !.last = Call("join_league", player_id, "-", "ok")]
    /\ LeagueFrame

InviteRejected(l, inviter_id, invitee_id) ==
    \/ inviter_id = invitee_id
    \/ ~ \/ l.creator_id = inviter_id
         \/ /\ l.members[inviter_id] = "active"
            /\ (l.privacy_type = "public" \/ l.members_can_invite)
    \/ l.members[invitee_id] /= "none"

InviteToLeague(inviter_id, invitee_id) ==
    /\ league.exists
    /\ league' =
          IF InviteRejected(league, inviter_id, invitee_id)
          THEN [league EXCEPT !.last = NoCall]
          ELSE [league EXCEPT !.members[invitee_id] = "invited", !.last = NoCall]
    /\ LeagueFrame

RespondToLeagueInvite(player_id, action) ==
    /\ league.exists
    /\ league' =
          IF action \notin {"accept", "decline"}
          THEN [league EXCEPT !.last = NoCall]
          ELSE [league EXCEPT
                   !.members[player_id] =
                       IF @ = "invited"
                       THEN (IF action = "accept" THEN "active" ELSE "none")
                       ELSE @,
                   !.last = NoCall]
    /\ LeagueFrame

\* mutant: the creator is not protected from removal
RemoveRejectedUnprotected(l, admin_id, member_to_remove_id) ==
    \/ l.creator_id /= admin_id
    \/ l.members[member_to_remove_id] = "none"

\* the checks of remove_league_member, in the order of the code
RemoveRejected(l, admin_id, member_to_remove_id) ==
    \/ l.creator_id /= admin_id
    \/ l.creator_id = member_to_remove_id
    \/ l.members[member_to_remove_id] = "none"

RemoveLeagueMember(admin_id, member_to_remove_id) ==
    /\ league.exists
    /\ league' =
          IF RemoveRejected(league, admin_id, member_to_remove_id)
          THEN [league EXCEPT
                   !.last = Call("remove_league_member", admin_id,
                                 member_to_remove_id, "ValueError")]
          ELSE [league EXCEPT
                   !.members[member_to_remove_id] = "none",
                   !.last = Call("remove_league_member", admin_id,
                                 member_to_remove_id, "ok")]
    /\ LeagueFrame

UpdateLeagueSettings(editor_id, new_settings) ==
    /\ league.exists
    /\ league' =
          IF league.creator_id /= editor_id \/ league.status /= "registering"
          THEN [league EXCEPT !.last = NoCall]
          ELSE [league EXCEPT
                   !.allow_late_joiners = new_settings.allow_late_joiners,
                   !.members_can_invite = new_settings.members_can_invite,
                   !.start_time = league.now + new_settings.start_offset_hours,
                   !.rounds = _create_league_rounds(
                                  league.now + new_settings.start_offset_hours),
                   !.completed_rounds = <<>>,
                   !.last = NoCall]
    /\ LeagueFrame

DeleteLeague(player_id) ==
    /\ league.exists
    /\ league' =
          IF league.creator_id /= player_id
          THEN [league EXCEPT !.last = NoCall]
          ELSE NoLeague(league.now)
    /\ LeagueFrame

NextLeague ==
    \/ LeagueTick
    \/ \E privacy_type \in {"public", "private"}, settings \in LeagueSettings :
           CreateLeague("p1", privacy_type, settings)
    \/ GetLeagueDetails
    \/ StartPendingLeagueRounds
    \/ \E player_id \in LeaguePlayers : JoinLeague(player_id)
    \/ \E inviter_id, invitee_id \in LeaguePlayers : InviteToLeague(inviter_id, invitee_id)
    \/ \E player_id \in LeaguePlayers, action \in {"accept", "decline", "ignore"} :
           RespondToLeagueInvite(player_id, action)
    \/ \E admin_id, member_to_remove_id \in LeaguePlayers :
           RemoveLeagueMember(admin_id, member_to_remove_id)
    \/ \E editor_id \in LeaguePlayers, new_settings \in LeagueSettings :
           UpdateLeagueSettings(editor_id, new_settings)
    \/ \E player_id \in LeaguePlayers : DeleteLeague(player_id)

SpecLeague == InitLeague /\ [][NextLeague]_vars

\* C26: at most one round of the league is 'active'.
C26_OneActiveRound ==
    (league /= None /\ league.exists) => Cardinality(ActiveRounds(league)) <= 1


\* the completed rounds, in the order of their completion, have increasing numbers
CompletedInOrder(l) ==
    \A i, j \in DOMAIN l.completed_rounds :
        i < j => l.completed_rounds[i] < l.completed_rounds[j]

\* C27: a league with status 'completed' has only completed rounds, and
\* the rounds of a league complete in increasing round_number order.
C27_LeagueCompleted ==
    (league /= None /\ league.exists) =>
        /\ league.status = "completed" =>
              \A i \in DOMAIN league.rounds : league.rounds[i].status = "completed"
        /\ CompletedInOrder(league)

\* the condition of the claim under which a player may become an active member
MayJoin(l, player_id) ==
    /\ l.privacy_type = "public" \/ l.members[player_id] = "invited"
    /\ l.status = "registering" \/ (l.status = "active" /\ l.allow_late_joiners)

C28_Step ==
    (league.exists /\ league'.exists) =>
        \A player_id \in LeaguePlayers :
            /\ (league.members[player_id] /= "active"
                    /\ league'.members[player_id] = "active")
                  => MayJoin(league, player_id)
            /\ (league'.last.op = "join_league" /\ league'.last.player = player_id
                    /\ ~MayJoin(league, player_id))
                  => /\ league'.last.result = "ValueError"
                     /\ league'.members = league.members

\* C28: a player becomes an active member of an existing league only when
\* the league is public or the player holds an invitation, and the league
\* is 'registering' or is 'active' with allow_late_joiners; a join_league
\* call outside this raises ValueError and leaves the members unchanged.
C28_JoinConditions == [][C28_Step]_vars

C29_Step ==
    /\ league'.exists => league'.members[league'.creator_id] = "active"
    /\ (/\ league.exists
        /\ league'.last.op = "remove_league_member"
        /\ \/ league'.last.player /= league.creator_id
           \/ league'.last.target = league.creator_id)
          => /\ league'.last.result = "ValueError"
             /\ [league' EXCEPT !.last = league.last] = league

\* C29: after every step the creator of an existing league is an active
\* member of it (create_league makes them one); remove_league_member
\* called by another player than the creator, or to remove the creator,
\* raises ValueError and changes nothing.
C29_CreatorIsMember == [][C29_Step]_vars

\* the creator, in a league with another active member, asked to be
\* removed and was refused
C29_Witness ==
    /\ league /= None
    /\ league.exists
    /\ league.last = Call("remove_league_member", league.creator_id,
                          league.creator_id, "ValueError")
    /\ league.members[league.creator_id] = "active"
    /\ \E p \in LeaguePlayers : p /= league.creator_id /\ league.members[p] = "active"


(***************************************************************************)
(* SpecSession: the session created by the start-session endpoint and the  *)
(* tracker process launched for it, from the first statement of            *)
(* run_tracker.main to its return.  The process is scheduled: a step that  *)
(* stays possible is eventually taken.  That the loop ends (the feed       *)
(* stops, 'q' is pressed or the time limit is reached) is granted.         *)
(***************************************************************************)

\* why main returns before the tracking loop
SetupFailures ==
    {"no_cameras", "camera_not_opened", "no_calibration", "calibration_not_confirmed"}

\* start_session has inserted the active session and launched run_tracker.py
InitSession ==
    /\ tr \in {[TrackerStart(args) EXCEPT !.pc = "setup"] : args \in TrackerArgs}
    /\ sessions = <<ActiveRow>>
    /\ proc = <<"tracking">>
    /\ selected = <<None>>
    /\ player_stats = NewPlayerStats
    /\ notifications = <<>>
    /\ career = None
    /\ StreaksIdle
    /\ ClassifierIdle
    /\ OthersIdle

\* main returns before the try statement: no camera is found, the camera
\* cannot be opened, the calibration file cannot be loaded, or the
\* calibration is not confirmed
SetupReturns(failure) ==
    /\ tr.pc = "setup"
    /\ tr' = [tr EXCEPT !.pc = "done", !.stop = failure]
    /\ DbUnchanged
    /\ StreaksUnchanged
    /\ ClassifierUnchanged
    /\ OthersUnchanged

\* the setup succeeds and the try statement is entered
EnterLoop ==
    /\ tr.pc = "setup"
    /\ tr' = [tr EXCEPT !.pc = "loop"]
    /\ DbUnchanged
    /\ StreaksUnchanged
    /\ ClassifierUnchanged
    /\ OthersUnchanged

NextSession ==
    \/ \E failure \in SetupFailures : SetupReturns(failure)
    \/ EnterLoop
    \/ NextTracker

SpecSession == InitSession /\ [][NextSession]_vars /\ WF_vars(NextSession)

\* C30: the session created with status 'active' by the start-session
\* endpoint eventually has status 'completed'.
C30_SessionCompletes ==
    (Len(sessions) = 1 /\ sessions[1].status = Some("active"))
        ~> (Len(sessions) = 1 /\ sessions[1].status = Some("completed"))


(***************************************************************************)
(* SpecCoach: the coach conversations of one player (api.py,               *)
(* data_manager.py).  Every login and data refresh starts a thread that    *)
(* runs _create_daily_ai_chat_if_needed; its database reads, the calls of  *)
(* the language model and the insertion of the conversation are separate   *)
(* steps, interleaved with those of the other threads.  coach_chat_api     *)
(* requests address the stored conversations.                              *)
(***************************************************************************)

\* threads started and the last clock value
MaxThreads == 2
MaxCoachClock == 2

\* timedelta(days=1), in clock units
Day == 2

\* the user messages a conversation may hold (user_message_count >= 5)
message_limit == 5

\* a stored history_json: the roles of its messages, the analysis of the
\* model first, then n exchanges of a user message and an answer
RECURSIVE HistoryWith(_)
HistoryWith(n) ==
    IF n = 0 THEN <<"model">> ELSE HistoryWith(n - 1) \o <<"user", "model">>

\* sum(1 for msg in history if msg.get('role') == 'user')
user_message_count(history) ==
    Cardinality({i \in DOMAIN history : history[i] = "user"})

\* the coach_conversations rows of the player found when the server starts
StoredConversations ==
    {<<>>} \cup {<<[created_at |-> 0, history |-> HistoryWith(n)]>> : n \in 0..message_limit}

\* get_last_conversation_time: MAX(created_at), NULL without a row
get_last_conversation_time(conversations) ==
    IF conversations = <<>> THEN None
    ELSE Some(CHOOSE t \in {conversations[i].created_at : i \in DOMAIN conversations} :
                 \A i \in DOMAIN conversations : conversations[i].created_at <= t)

\* the checks of _create_daily_ai_chat_if_needed that end the thread
\* without a conversation
DailyChatNotNeeded(c) ==
    LET last_convo_time == get_last_conversation_time(c.conversations)
    IN  \/ c.subscription_status /= "active"
        \/ last_convo_time /= None /\ c.now - last_convo_time.some < Day
        \/ ~c.has_sessions

InitCoach ==
    /\ coach \in [subscription_status : {"active", "free"},
                  has_sessions : BOOLEAN,
                  now : {0},
                  conversations : StoredConversations,
                  threads : {<<>>},
                  created : {0},
                  response : {None}]
    /\ DbIdle
    /\ StreaksIdle
    /\ TrackerIdle
    /\ ClassifierIdle
    /\ sweep = None /\ duel = None /\ league = None /\ fundraiser = None

CoachFrame ==
    /\ DbUnchanged
    /\ StreaksUnchanged
    /\ ClassifierUnchanged
    /\ UNCHANGED <<tr, sweep, duel, league, fundraiser>>

CoachTick ==
    /\ coach.now < MaxCoachClock
    /\ coach' = [coach EXCEPT !.now = @ + 1]
    /\ CoachFrame

\* login or get_player_data starts the thread
StartDailyChatThread ==
    /\ Len(coach.threads) < MaxThreads
    /\ coach' = [coach EXCEPT !.threads = Append(@, "check")]
    /\ CoachFrame

\* the thread reads the player, the time of the last conversation, the
\* stats and the sessions
CheckDailyChat(k) ==
    /\ coach.threads[k] = "check"
    /\ coach' = [coach EXCEPT !.threads[k] =
                    IF DailyChatNotNeeded(coach) THEN "done" ELSE "generate"]
    /\ CoachFrame

\* the model has answered: create_conversation inserts the row
CreateConversation(k) ==
    /\ coach.threads[k] = "generate"
    /\ coach' = [coach EXCEPT
                    !.conversations =
                        Append(@, [created_at |-> coach.now, history |-> <<"model">>]),
                    !.created = @ + 1,
                    !.threads[k] = "done"]
    /\ CoachFrame

\* a call of the model raises: the exception is logged
GenerateFails(k) ==
    /\ coach.threads[k] = "generate"
    /\ coach' = [coach EXCEPT !.threads[k] = "done"]
    /\ CoachFrame

\* coach_chat_api for a conversation of the player, behind
\* subscription_required: data_manager has no get_conversation_owner, the
\* AttributeError is caught by the last except clause
coach_chat_api(c, conversation_id) ==
    IF c.subscription_status /= "active"
    THEN [c EXCEPT !.response = Some([conversation_id |-> conversation_id, status |-> 403])]
    ELSE [c EXCEPT !.response = Some([conversation_id |-> conversation_id, status |-> 503])]

CoachChat(conversation_id) ==
    /\ coach' = coach_chat_api(coach, conversation_id)
    /\ CoachFrame

NextCoach ==
    \/ CoachTick
    \/ StartDailyChatThread
    \/ \E k \in DOMAIN coach.threads : CheckDailyChat(k)
    \/ \E k \in DOMAIN coach.threads : CreateConversation(k)
    \/ \E k \in DOMAIN coach.threads : GenerateFails(k)
    \/ \E conversation_id \in DOMAIN coach.conversations : CoachChat(conversation_id)

SpecCoach == InitCoach /\ [][NextCoach]_vars

\* C31: two conversations of the player are created at least a day apart,
\* and no conversation is created for a player without subscription or
\* without sessions.
C31_OneDailyChat ==
    coach /= None =>
        /\ \A i, j \in DOMAIN coach.conversations :
               i < j => coach.conversations[j].created_at
                            - coach.conversations[i].created_at >= Day
        /\ (coach.subscription_status /= "active" \/ ~coach.has_sessions)
               => coach.created = 0

MaxCompleted == 3
MaxPledges == 2

\* milestones = [25, 50, 75, 100]
milestones == <<25, 50, 75, 100>>

\* _calculate_amount_raised: the makes of the completed sessions of the
\* fundraiser's period times the sum of the pledges per putt
amount_raised(f) == f.total_putts_made * f.total_pledge_per_putt

\* the fundraiser is selected by update_fundraiser_progress
IsActiveFundraiser(f) == f.row.status = "active" /\ f.phase /= "after"

\* get_fundraiser_details(fundraiser_id) called with the positional
\* arguments given: it has one parameter
CallGetFundraiserDetails(f, positional_args) ==
    IF positional_args /= 1 THEN [raised |-> "TypeError"]
    ELSE [amount_raised |-> amount_raised(f)]

\* the loop over the milestones: each one reached and above the
\* last_notified read before the loop is notified and stored
RECURSIVE NotifyMilestones(_, _, _, _)
NotifyMilestones(f, amount, last_notified, k) ==
    IF k > Len(milestones) THEN f
    ELSE LET milestone == milestones[k]
         IN  IF amount * 100 >= milestone * f.row.goal_amount /\ last_notified < milestone
             THEN NotifyMilestones(
                      [f EXCEPT !.notified = Append(@, milestone),
                                !.row.last_notified_milestone = milestone],
                      amount, last_notified, k + 1)
             ELSE NotifyMilestones(f, amount, last_notified, k + 1)

\* mutant: the details are computed with the connection, and every
\* milestone reached is notified whatever was notified before
update_fundraiser_progress_again(f) ==
    IF ~IsActiveFundraiser(f) THEN f
    ELSE NotifyMilestones(f, amount_raised(f), 0, 1)

\* update_fundraiser_progress within the transaction of update_session:
\* the fundraiser after it, or the exception it raises
update_fundraiser_progress(f) ==
    IF ~IsActiveFundraiser(f) THEN f
    ELSE LET details_for_calc == CallGetFundraiserDetails(f, 2)
         IN  IF Raises(details_for_calc) THEN details_for_calc
             ELSE IF f.row.goal_amount <= 0 THEN f
             ELSE NotifyMilestones(f, details_for_calc.amount_raised,
                                   f.row.last_notified_milestone, 1)

\* create_fundraiser has inserted the row
InitFundraiser ==
    /\ fundraiser = [row |-> [status |-> "upcoming", goal_amount |-> 4,
                              last_notified_milestone |-> 0],
                     phase |-> "before",
                     total_putts_made |-> 0, total_pledge_per_putt |-> 0,
                     completed |-> 0, pledges |-> 0,
                     notified |-> <<>>, result |-> None]
    /\ DbIdle
    /\ StreaksIdle
    /\ TrackerIdle
    /\ ClassifierIdle
    /\ sweep = None /\ duel = None /\ league = None /\ coach = None

FundraiserFrame ==
    /\ DbUnchanged
    /\ StreaksUnchanged
    /\ ClassifierUnchanged
    /\ UNCHANGED <<tr, sweep, duel, league, coach>>

\* the start time, then the end time of the fundraiser pass
FundraiserTime ==
    /\ fundraiser.phase /= "after"
    /\ fundraiser' = [fundraiser EXCEPT
                         !.phase = IF @ = "before" THEN "during" ELSE "after",
                         !.result = None]
    /\ FundraiserFrame

\* get_fundraiser_details as called by the API: the status follows the clock
GetFundraiserDetails ==
    /\ fundraiser' = [fundraiser EXCEPT
                         !.row.status =
                             IF @ /= "completed" /\ fundraiser.phase = "after"
                             THEN "completed"
                             ELSE IF @ = "upcoming" /\ fundraiser.phase = "during"
                             THEN "active"
                             ELSE @,
                         !.result = None]
    /\ FundraiserFrame

CreatePledge(amount_per_putt) ==
    /\ fundraiser.pledges < MaxPledges
    /\ fundraiser' = [fundraiser EXCEPT !.pledges = @ + 1,
                                        !.total_pledge_per_putt = @ + amount_per_putt,
                                        !.result = None]
    /\ FundraiserFrame

\* update_session for a session of the player with total_makes makes: the
\* session is completed and update_fundraiser_progress runs in the same
\* transaction; an exception rolls the transaction back
FundraiserUpdateSession(total_makes) ==
    /\ fundraiser.completed < MaxCompleted
    /\ LET updated == [fundraiser EXCEPT
                          !.completed = @ + 1,
                          !.total_putts_made =
                              IF fundraiser.phase = "during" THEN @ + total_makes ELSE @]
           progress == update_fundraiser_progress(updated)
       IN  fundraiser' = IF Raises(progress)
                         THEN [fundraiser EXCEPT !.result = Some(progress.raised)]
                         ELSE [progress EXCEPT !.result = Some("ok")]
    /\ FundraiserFrame

NextFundraiser ==
    \/ FundraiserTime
    \/ GetFundraiserDetails
    \/ \E amount_per_putt \in 1..2 : CreatePledge(amount_per_putt)
    \/ \E total_makes \in 1..2 : FundraiserUpdateSession(total_makes)

SpecFundraiser == InitFundraiser /\ [][NextFundraiser]_vars

C33_Step ==
    /\ \A k \in DOMAIN milestones :
           Cardinality({i \in DOMAIN fundraiser'.notified :
                           fundraiser'.notified[i] = milestones[k]}) <= 1
    /\ \A i, j \in DOMAIN fundraiser'.notified :
           i < j => fundraiser'.notified[i] < fundraiser'.notified[j]
    /\ fundraiser'.row.last_notified_milestone >= fundraiser.row.last_notified_milestone

====
